---- MODULE Spec2Model ----
(***************************************************************************)
(* Model of the sandbox device plugin (pkg/device_plugin):                  *)
(*   - Allocate, as a function of the unit index and the IOMMU-FD           *)
(*     capability (AllocSpec);                                              *)
(*   - one GenericDevicePlugin instance with its goroutines: the callers    *)
(*     of Start/Stop, the health watchers (healthCheck, restart) and the    *)
(*     ListAndWatch sessions (Spec and HealthSpec, and FairSpec and         *)
(*     FairHealthSpec, which add the fair scheduling of the goroutines);    *)
(*   - the controller of one instance with its goroutines (CtlSpec and      *)
(*     FairCtlSpec);                                                        *)
(*   - discovery, createIommuDeviceMap, over several passes (DiscSpec);     *)
(*   - InitiateDevicePlugin: one discovery pass and createDevicePlugins     *)
(*     over all device classes (InitiateSpec).                              *)
(***************************************************************************)
EXTENDS Integers, Sequences, FiniteSets, TLC

VARIABLES
    \* ---- discovery state and capability read by Allocate
    iommuMap,     \* unit key -> sequence of NvidiaPCIDevice (var iommuMap)
    iommuDev,     \* os.Stat(rootPath/iommuDevicePath): "exists" | "absent" | "error"
    allocCalled,  \* whether Allocate has been called
    allocReqs,    \* the ContainerRequests of the last Allocate call
    allocResp,    \* its response: NilResponse or an AllocateResponse
    allocErr      \* whether it returned an error

VARIABLES
    \* ---- the GenericDevicePlugin instance (dpi)
    devs,         \* dpi.devs: sequence of [ID, Health]
    server,       \* dpi.server: 0 (nil) or the number of a grpc server
    stop,         \* dpi.stop: "nil", "global" (the controller's) or "local" (made by restart)
    term,         \* number of values buffered in dpi.term
    \* ---- its environment
    srv,          \* grpc servers created so far: "bound" | "serving" | "stopped"
    sockFile,     \* 0, or the server whose listener created the file at dpi.socketPath
    devFile,      \* device ID -> whether the device-presence file exists
    devInSockDir, \* whether dpi.devicePath is the directory of dpi.socketPath
    stopClosed,   \* whether the controller's stop channel is closed
    regs,         \* number of successful registrations with the kubelet
    fsOps,        \* number of device-file operations done by the environment
    scoped,       \* device ID -> the last operation on its file that was done while
                  \* the instance served with a running watcher and an open session
    \* ---- goroutines
    lis,          \* thread -> the listener its Start has bound, or 0
    pc,           \* thread -> position; thread 0 calls Start/Stop, the others run healthCheck
    ret,          \* thread -> outcome of its last Start, Stop or healthCheck
    probe,        \* thread -> outcome of waitForGrpcServer in its last Start
    wat,          \* watcher thread -> [q, dir, files, i, val, stopch, startOk]
    ses           \* session -> state of one ListAndWatch call

VARIABLES
    \* ---- discovery (createIommuDeviceMap) and its provider
    deviceMap,          \* device ID -> sequence of unit keys (var deviceMap)
    nvSwitchDeviceIDs,  \* device ID -> TRUE (var nvSwitchDeviceIDs)
    pciDevs,            \* the devices nvpciLib.GetAllDevices() returns
    pciErr,             \* whether nvpciLib.GetAllDevices() returns an error
    passes,             \* number of discovery passes run
    passRes,            \* outcome of the last pass: "none" | "ok" | "cap_err" | "enum_err"
    \* ---- the controller (createDevicePlugins) over all classes
    PGPUAlias,          \* var PGPUAlias
    NVSwitchAlias,      \* var NVSwitchAlias
    plugins,            \* the instances constructed so far, in construction order
    devicePlugins,      \* var devicePlugins: the tracked instances (numbers in plugins)
    iommufdSupported,   \* the controller's local iommufdSupported
    todo,               \* the classes the range loop has not visited yet
    cpc,                \* position of the controller
    sockFiles,          \* socket path -> the instance whose listener created the file
    removed             \* pairs <<p, q>>: a Start or Stop of p removed the file of q

VARIABLES
    \* ---- CDI generation (GenerateCDISpec)
    cdiFiles,           \* spec name -> the descriptor written in cdiRoot under that name
    cdiLog,             \* the calls of generateCDISpecForClass so far: [class, keys, res]
    cdiPc,              \* position of GenerateCDISpec
    cdiTodo,            \* the classes the current range loop has not visited yet
    cdiRet,             \* its result: "none" | "nil" | "err"
    \* ---- a call of a pure function
    fnIn,               \* its argument
    fnOut,              \* its last result
    fnCalls             \* number of applications so far

cdiVars == <<cdiFiles, cdiLog, cdiPc, cdiTodo, cdiRet>>
fnVars == <<fnIn, fnOut, fnCalls>>
discVars == <<deviceMap, nvSwitchDeviceIDs, pciDevs, pciErr, passes, passRes>>
mgrVars == <<PGPUAlias, NVSwitchAlias, plugins, devicePlugins, iommufdSupported, todo, cpc,
             sockFiles, removed>>
allocVars == <<iommuMap, iommuDev, allocCalled, allocReqs, allocResp, allocErr,
               discVars, mgrVars, cdiVars, fnVars>>
dpiVars == <<devs, server, stop, term>>
envVars == <<srv, sockFile, devFile, devInSockDir, stopClosed, regs, fsOps, scoped>>
thrVars == <<lis, pc, ret, probe, wat, ses>>
vars == <<allocVars, dpiVars, envVars, thrVars>>

\* a nil *AllocateResponse, and a response holding ContainerResponses
NilResponse == [nil |-> TRUE, ContainerResponses |-> <<>>]
Response(resps) == [nil |-> FALSE, ContainerResponses |-> resps]

----------------------------------------------------------------------------
(* Bounds and universes                                                     *)

MaxUnitDevs == 2      \* devices per isolation unit
MaxContainers == 2    \* container requests per Allocate batch
MaxIDs == 2           \* unit keys requested per batch, over all containers

UnitKeys == {"1", "2"}          \* keys the unit index may hold
UnknownKey == "4"               \* a key no unit index holds
ReqKeys == UnitKeys \cup {UnknownKey}
GroupOf == [k \in UnitKeys |-> IF k = "1" THEN 1 ELSE 2]
FdTable == [k \in UnitKeys |->
              IF k = "1" THEN <<"vfio3", "vfio5", "vfio7", "vfio9">>
                         ELSE <<"vfio4", "vfio6", "vfio8", "vfio10">>]

\* NvidiaPCIDevice (the fields Allocate reads or logs)
PCIDevice(k, i, hasFd) ==
    [Address |-> <<k, i>>, IommuGroup |-> GroupOf[k],
     IommuFD |-> IF hasFd THEN FdTable[k][i] ELSE ""]

\* a unit of n devices of which device number nofd (0: none) has no fd handle
Unit(k, n, nofd) == [i \in 1..n |-> PCIDevice(k, i, i # nofd)]
UnitsOf(k) == {Unit(k, n, nofd) : n \in 1..MaxUnitDevs, nofd \in 0..MaxUnitDevs}
IommuMaps ==
    UNION {{m \in [ks -> UNION {UnitsOf(k) : k \in ks}] :
              \A k \in ks : m[k] \in UnitsOf(k)} : ks \in SUBSET UnitKeys}

SeqsUpTo(S, n) == UNION {[1..l -> S] : l \in 0..n}
RECURSIVE SumLen(_)
SumLen(ss) == IF ss = <<>> THEN 0 ELSE Len(Head(ss)) + SumLen(Tail(ss))
\* ContainerRequests: each a sequence of DevicesIDs
AllocRequests ==
    {r \in SeqsUpTo(SeqsUpTo(ReqKeys, MaxIDs), MaxContainers) : SumLen(r) <= MaxIDs}

----------------------------------------------------------------------------
(* Allocate                                                                 *)

vfioDevicePath == <<"dev", "vfio">>
Join(p, name) == Append(p, name)

DeviceSpec(p) == [HostPath |-> p, ContainerPath |-> p, Permissions |-> "mrw"]

\* supportsIOMMUFD: (bool, error) from the stat of the capability path
supportsIOMMUFD(st) ==
    IF st = "error" THEN [ok |-> FALSE, val |-> FALSE]
    ELSE [ok |-> TRUE, val |-> (st = "exists")]

\* the loop over the devices of one unit: in fd mode one node per device, an
\* error at the first device without a handle; in legacy mode nothing
AllocDevs_SkipNoFd(nvDevs, fd) ==
    LET F[i \in 0..Len(nvDevs)] ==
          IF i = 0 THEN <<>>
          ELSE IF fd /\ nvDevs[i].IommuFD # ""
               THEN Append(F[i-1],
                           DeviceSpec(Join(Join(vfioDevicePath, "devices"), nvDevs[i].IommuFD)))
               ELSE F[i-1]
    IN [ok |-> TRUE, specs |-> F[Len(nvDevs)]]

RECURSIVE AllocDevs(_, _)
AllocDevs(nvDevs, fd) ==
    IF nvDevs = <<>> THEN [ok |-> TRUE, specs |-> <<>>]
    ELSE LET dev == Head(nvDevs) IN
         IF fd
         THEN IF dev.IommuFD = ""
              THEN [ok |-> FALSE, specs |-> <<>>]
              ELSE LET rest == AllocDevs(Tail(nvDevs), fd) IN
                   [ok |-> rest.ok,
                    specs |-> <<DeviceSpec(Join(Join(vfioDevicePath, "devices"), dev.IommuFD))>>
                              \o rest.specs]
         ELSE AllocDevs(Tail(nvDevs), fd)

\* the two legacy nodes appended after the device loop
LegacySpecs_GroupOnly(iommuID) == <<DeviceSpec(Join(vfioDevicePath, iommuID))>>

LegacySpecs(iommuID) ==
    <<DeviceSpec(Join(vfioDevicePath, "vfio")), DeviceSpec(Join(vfioDevicePath, iommuID))>>

\* the loop over the DevicesIDs of one container request
RECURSIVE AllocIDs_SkipUnknown(_, _, _)
AllocIDs_SkipUnknown(ids, map, fd) ==
    IF ids = <<>> THEN [ok |-> TRUE, specs |-> <<>>]
    ELSE LET iommuID == Head(ids) IN
         IF iommuID \notin DOMAIN map
         THEN AllocIDs_SkipUnknown(Tail(ids), map, fd)
         ELSE LET d == AllocDevs(map[iommuID], fd) IN
              IF ~d.ok THEN [ok |-> FALSE, specs |-> <<>>]
              ELSE LET rest == AllocIDs_SkipUnknown(Tail(ids), map, fd) IN
                   [ok |-> rest.ok,
                    specs |-> d.specs \o (IF fd THEN <<>> ELSE LegacySpecs(iommuID))
                              \o rest.specs]

RECURSIVE AllocIDs(_, _, _)
AllocIDs(ids, map, fd) ==
    IF ids = <<>> THEN [ok |-> TRUE, specs |-> <<>>]
    ELSE LET iommuID == Head(ids) IN
         IF iommuID \notin DOMAIN map
         THEN [ok |-> FALSE, specs |-> <<>>]
         ELSE LET d == AllocDevs(map[iommuID], fd) IN
              IF ~d.ok THEN [ok |-> FALSE, specs |-> <<>>]
              ELSE LET rest == AllocIDs(Tail(ids), map, fd) IN
                   [ok |-> rest.ok,
                    specs |-> d.specs \o (IF fd THEN <<>> ELSE LegacySpecs(iommuID))
                              \o rest.specs]

\* the loop over the container requests
RECURSIVE AllocContainers(_, _, _)
AllocContainers(reqs, map, fd) ==
    IF reqs = <<>> THEN [ok |-> TRUE, resps |-> <<>>]
    ELSE LET c == AllocIDs(Head(reqs), map, fd) IN
         IF ~c.ok THEN [ok |-> FALSE, resps |-> <<>>]
         ELSE LET rest == AllocContainers(Tail(reqs), map, fd) IN
              [ok |-> rest.ok, resps |-> <<[Devices |-> c.specs]>> \o rest.resps]

\* GenericDevicePlugin.Allocate: (response, error)
AllocateResult(reqs, map, st) ==
    LET cap == supportsIOMMUFD(st) IN
    IF ~cap.ok THEN [resp |-> NilResponse, err |-> TRUE]
    ELSE LET r == AllocContainers(reqs, map, cap.val) IN
         IF r.ok THEN [resp |-> Response(r.resps), err |-> FALSE]
         ELSE [resp |-> NilResponse, err |-> TRUE]

AllocInitVars ==
    /\ iommuMap \in IommuMaps
    /\ iommuDev \in {"exists", "absent", "error"}
    /\ allocCalled = FALSE
    /\ allocReqs = <<>>
    /\ allocResp = NilResponse
    /\ allocErr = FALSE

Allocate ==
    \E reqs \in AllocRequests :
        LET r == AllocateResult(reqs, iommuMap, iommuDev) IN
        /\ ~allocCalled
        /\ allocCalled' = TRUE
        /\ allocReqs' = reqs
        /\ allocResp' = r.resp
        /\ allocErr' = r.err
        /\ UNCHANGED <<iommuMap, iommuDev, discVars, mgrVars, cdiVars, fnVars, dpiVars, envVars,
                       thrVars>>

----------------------------------------------------------------------------
(* The plugin instance: bounds, threads and helpers                         *)

MaxStarts == 2        \* grpc servers (successful net.Listen calls) per run
MaxSessions == 2      \* ListAndWatch calls per run
MaxFsOps == 2         \* removals, renames and creations of device files per run
TermCap == 1          \* capacity of dpi.term

Main == 0
Watchers == 1..MaxStarts
Threads == {Main} \cup Watchers
Sessions == 1..MaxSessions

InstanceDevs == <<"1", "2">>    \* the IDs of dpi.devs
DevIDs == {InstanceDevs[i] : i \in 1..Len(InstanceDevs)}
SockName == "sock"              \* dpi.socketPath, as an event name
Stale == -1                     \* sockFile: a file left by an earlier process
Healthy == "Healthy"
Unhealthy == "Unhealthy"

NoSig == [kind |-> "none", id |-> ""]
NewWatcherState ==
    [q |-> <<>>, dir |-> FALSE, files |-> {}, i |-> 0, val |-> "",
     stopch |-> "nil", startOk |-> FALSE]
NewSessionState ==
    [pc |-> "none", stopch |-> "nil", sig |-> NoSig, prev |-> <<>>, last |-> <<>>,
     lastSig |-> NoSig, clean |-> TRUE, dirty |-> FALSE, nSent |-> 0, nGot |-> 0]

\* a panic ends the process: every goroutine stops where it is
Crashed == \E t \in Threads : pc[t] = "panic"
Panic ==
    /\ pc' = [t \in Threads |-> "panic"]
    /\ ses' = [s \in Sessions |-> [NewSessionState EXCEPT !.pc = "panic"]]

\* whether a receive on channel ch is ready because ch is closed
Closed(ch) == ch = "global" /\ stopClosed

\* fsnotify: an event of the watched socket directory reaches every watcher
\* that has added the directory and is not closed
DirNotify(W, ev) ==
    [w \in Watchers |-> IF W[w].dir THEN [W[w] EXCEPT !.q = Append(@, ev)] ELSE W[w]]
\* fsnotify: an event of a watched file; a removed or renamed file is no
\* longer watched
FileNotify(W, ev) ==
    [w \in Watchers |->
        IF ev.Name \in W[w].files
        THEN [W[w] EXCEPT !.q = Append(@, ev), !.files = @ \ {ev.Name}]
        ELSE W[w]]
\* the file at dpi.socketPath is unlinked, if there is one
UnlinkSock(W) ==
    IF sockFile # 0 THEN DirNotify(W, [Op |-> "Remove", Name |-> SockName]) ELSE W
\* deferred watcher.Close() of a returning healthCheck
CloseWatcher(W, w) == [W EXCEPT ![w].dir = FALSE, ![w].files = {}, ![w].q = <<>>]

\* a healthCheck goroutine returns
HcReturn(w, r, W) ==
    /\ pc' = [pc EXCEPT ![w] = "hc_done"]
    /\ ret' = [ret EXCEPT ![w] = r]
    /\ wat' = CloseWatcher(W, w)

\* Start returns r: to the caller of Start, or to restart and so to healthCheck
StartReturn(t, r, W) ==
    IF t = Main
    THEN /\ pc' = [pc EXCEPT ![t] = "idle"]
         /\ ret' = [ret EXCEPT ![t] = r]
         /\ wat' = W
    ELSE HcReturn(t, IF r = "start_ok" THEN "hc_restarted" ELSE r, W)

\* Stop returns r: to the caller of Stop, or to restart, which goes on to Start
StopReturn(t, r) ==
    IF t = Main
    THEN /\ pc' = [pc EXCEPT ![t] = "idle"]
         /\ ret' = [ret EXCEPT ![t] = r]
         /\ UNCHANGED probe
    ELSE /\ pc' = [pc EXCEPT ![t] = "start_check"]
         /\ probe' = [probe EXCEPT ![t] = "none"]
         /\ UNCHANGED ret

Goto(t, p) == pc' = [pc EXCEPT ![t] = p]

----------------------------------------------------------------------------
(* GenericDevicePlugin.Start                                                *)

\* the controller (or a test) calls dpi.Start(stop)
StartCall ==
    /\ pc[Main] = "idle"
    /\ Goto(Main, "start_check")
    /\ ret' = [ret EXCEPT ![Main] = "none"]
    /\ probe' = [probe EXCEPT ![Main] = "none"]
    /\ UNCHANGED <<allocVars, dpiVars, envVars, lis, wat, ses>>

\* if dpi.server != nil { return error }
StartCheck_SetsStopFirst(t) ==
    /\ pc[t] = "start_check"
    /\ stop' = IF t = Main THEN "global" ELSE "local"
    /\ IF server # 0
       THEN StartReturn(t, "start_already", wat)
       ELSE Goto(t, "start_cleanup") /\ UNCHANGED <<ret, wat>>
    /\ UNCHANGED <<allocVars, devs, server, term, envVars, lis, probe, ses>>

StartCheck(t) ==
    /\ pc[t] = "start_check"
    /\ IF server # 0
       THEN StartReturn(t, "start_already", wat)
       ELSE Goto(t, "start_setstop") /\ UNCHANGED <<ret, wat>>
    /\ UNCHANGED <<allocVars, dpiVars, envVars, lis, probe, ses>>

\* dpi.stop = stop
StartSetStop(t) ==
    /\ pc[t] = "start_setstop"
    /\ stop' = IF t = Main THEN "global" ELSE "local"
    /\ Goto(t, "start_cleanup")
    /\ UNCHANGED <<allocVars, devs, server, term, envVars, lis, ret, probe, wat, ses>>

\* err := dpi.cleanup(): os.Remove(dpi.socketPath); an absent file is no error
StartCleanup(t) ==
    /\ pc[t] = "start_cleanup"
    /\ \/ /\ sockFile' = 0
          /\ wat' = UnlinkSock(wat)
          /\ Goto(t, "start_listen")
          /\ UNCHANGED ret
       \/ /\ StartReturn(t, "start_cleanup_err", wat)
          /\ UNCHANGED sockFile
    /\ UNCHANGED <<allocVars, dpiVars, srv, devFile, devInSockDir, stopClosed, regs,
                   fsOps, scoped, lis, probe, ses>>

\* sock, err := net.Listen("unix", dpi.socketPath): binds and creates the file;
\* fails when the path is in use, and may fail for any other reason
StartListen(t) ==
    /\ pc[t] = "start_listen"
    /\ \/ /\ sockFile = 0 /\ Len(srv) < MaxStarts
          /\ srv' = Append(srv, "bound")
          /\ sockFile' = Len(srv) + 1
          /\ lis' = [lis EXCEPT ![t] = Len(srv) + 1]
          /\ Goto(t, "start_server")
          /\ UNCHANGED <<ret, wat>>
       \/ /\ StartReturn(t, "start_listen_err", wat)
          /\ UNCHANGED <<srv, sockFile, lis>>
    /\ UNCHANGED <<allocVars, dpiVars, devFile, devInSockDir, stopClosed, regs, fsOps, scoped,
                   probe, ses>>

\* dpi.server = grpc.NewServer(); go dpi.server.Serve(sock)
StartServer(t) ==
    /\ pc[t] = "start_server"
    /\ server' = lis[t]
    /\ srv' = [srv EXCEPT ![lis[t]] = "serving"]
    /\ Goto(t, "start_probe")
    /\ UNCHANGED <<allocVars, devs, stop, term, sockFile, devFile, devInSockDir,
                   stopClosed, regs, fsOps, scoped, lis, ret, probe, wat, ses>>

\* err = waitForGrpcServer(...): the error is logged and Start goes on
StartProbe(t) ==
    /\ pc[t] = "start_probe"
    /\ \/ /\ srv[lis[t]] = "serving" /\ sockFile = lis[t]
          /\ probe' = [probe EXCEPT ![t] = "ok"]
       \/ probe' = [probe EXCEPT ![t] = "failed"]
    /\ Goto(t, "start_register")
    /\ UNCHANGED <<allocVars, dpiVars, envVars, lis, ret, wat, ses>>

\* err = dpi.Register(); if err != nil { return err }
StartRegister_TearsDown(t) ==
    /\ pc[t] = "start_register"
    /\ \/ /\ regs' = regs + 1
          /\ Goto(t, "start_gohc")
          /\ UNCHANGED <<ret, wat, server>>
       \/ /\ StartReturn(t, "start_register_err", wat)
          /\ server' = 0
          /\ UNCHANGED regs
    /\ UNCHANGED <<allocVars, devs, stop, term, srv, sockFile, devFile, devInSockDir,
                   stopClosed, fsOps, scoped, lis, probe, ses>>

StartRegister(t) ==
    /\ pc[t] = "start_register"
    /\ \/ /\ regs' = regs + 1
          /\ Goto(t, "start_gohc")
          /\ UNCHANGED <<ret, wat>>
       \/ /\ StartReturn(t, "start_register_err", wat)
          /\ UNCHANGED regs
    /\ UNCHANGED <<allocVars, dpiVars, srv, sockFile, devFile, devInSockDir, stopClosed,
                   fsOps, scoped, lis, probe, ses>>

\* go dpi.healthCheck(); return err (nil)
StartGoHealthCheck(t) ==
    /\ pc[t] = "start_gohc"
    /\ \E w \in Watchers :
        /\ pc[w] = "unborn"
        /\ \A v \in Watchers : v < w => pc[v] # "unborn"
        /\ LET W == [wat EXCEPT ![w].startOk = TRUE] IN
           IF t = Main
           THEN /\ pc' = [pc EXCEPT ![t] = "idle", ![w] = "hc_new"]
                /\ ret' = [ret EXCEPT ![t] = "start_ok"]
                /\ wat' = W
           ELSE /\ pc' = [pc EXCEPT ![t] = "hc_done", ![w] = "hc_new"]
                /\ ret' = [ret EXCEPT ![t] = "hc_restarted"]
                /\ wat' = CloseWatcher(W, t)
    /\ UNCHANGED <<allocVars, dpiVars, envVars, lis, probe, ses>>

----------------------------------------------------------------------------
(* GenericDevicePlugin.Stop and restart                                     *)

\* the controller (or a test) calls dpi.Stop()
StopCall ==
    /\ pc[Main] = "idle"
    /\ Goto(Main, "stop_check")
    /\ ret' = [ret EXCEPT ![Main] = "none"]
    /\ UNCHANGED <<allocVars, dpiVars, envVars, lis, probe, wat, ses>>

StopCheck_AlwaysTerm(t) ==
    /\ pc[t] = "stop_check"
    /\ Goto(t, "stop_term") /\ UNCHANGED <<ret, probe>>
    /\ UNCHANGED <<allocVars, dpiVars, envVars, lis, wat, ses>>

\* if dpi.server == nil { return nil }
StopCheck(t) ==
    /\ pc[t] = "stop_check"
    /\ IF server = 0
       THEN StopReturn(t, "stop_noop")
       ELSE Goto(t, "stop_term") /\ UNCHANGED <<ret, probe>>
    /\ UNCHANGED <<allocVars, dpiVars, envVars, lis, wat, ses>>

\* dpi.term <- true: blocks while the buffer is full
StopTerm(t) ==
    /\ pc[t] = "stop_term"
    /\ term < TermCap
    /\ term' = term + 1
    /\ Goto(t, "stop_server")
    /\ UNCHANGED <<allocVars, devs, server, stop, envVars, lis, ret, probe, wat, ses>>

\* dpi.server.Stop(): closes the listener, which unlinks its socket file; a
\* nil dpi.server is a nil dereference
StopServer(t) ==
    /\ pc[t] = "stop_server"
    /\ IF server = 0
       THEN /\ Panic
            /\ UNCHANGED <<srv, sockFile, wat>>
       ELSE /\ srv' = [srv EXCEPT ![server] = "stopped"]
            /\ IF srv[server] # "stopped"
               THEN sockFile' = 0 /\ wat' = UnlinkSock(wat)
               ELSE UNCHANGED <<sockFile, wat>>
            /\ Goto(t, "stop_nil")
            /\ UNCHANGED ses
    /\ UNCHANGED <<allocVars, dpiVars, devFile, devInSockDir, stopClosed, regs, fsOps, scoped,
                   lis, ret, probe>>

\* dpi.server = nil
StopNil(t) ==
    /\ pc[t] = "stop_nil"
    /\ server' = 0
    /\ Goto(t, "stop_cleanup")
    /\ UNCHANGED <<allocVars, devs, stop, term, envVars, lis, ret, probe, wat, ses>>

\* return dpi.cleanup()
StopCleanup(t) ==
    /\ pc[t] = "stop_cleanup"
    /\ \/ /\ sockFile' = 0
          /\ wat' = UnlinkSock(wat)
          /\ StopReturn(t, "stop_ok")
       \/ /\ StopReturn(t, "stop_err")
          /\ UNCHANGED <<sockFile, wat>>
    /\ UNCHANGED <<allocVars, dpiVars, srv, devFile, devInSockDir, stopClosed, regs,
                   fsOps, scoped, lis, ses>>

\* restart: if dpi.server == nil { return error }; dpi.Stop(); return dpi.Start(stop)
RestartCheck(w) ==
    /\ pc[w] = "restart_check"
    /\ IF server = 0
       THEN HcReturn(w, "hc_restart_err", wat)
       ELSE Goto(w, "stop_check") /\ UNCHANGED <<ret, wat>>
    /\ UNCHANGED <<allocVars, dpiVars, envVars, lis, probe, ses>>

----------------------------------------------------------------------------
(* GenericDevicePlugin.healthCheck                                          *)

\* watcher, err := fsnotify.NewWatcher()
HcNewWatcher(w) ==
    /\ pc[w] = "hc_new"
    /\ \/ Goto(w, "hc_addsock") /\ UNCHANGED <<ret, wat>>
       \/ HcReturn(w, "hc_setup_err", wat)
    /\ UNCHANGED <<allocVars, dpiVars, envVars, lis, probe, ses>>

\* err = watcher.Add(filepath.Dir(dpi.socketPath))
HcAddSocketDir(w) ==
    /\ pc[w] = "hc_addsock"
    /\ \/ /\ wat' = [wat EXCEPT ![w].dir = TRUE]
          /\ Goto(w, "hc_stat")
          /\ UNCHANGED ret
       \/ HcReturn(w, "hc_setup_err", wat)
    /\ UNCHANGED <<allocVars, dpiVars, envVars, lis, probe, ses>>

\* _, err = os.Stat(path): only an error other than "not exist" returns
HcStat(w) ==
    /\ pc[w] = "hc_stat"
    /\ \/ /\ wat' = [wat EXCEPT ![w].i = 1]
          /\ Goto(w, "hc_adddev")
          /\ UNCHANGED ret
       \/ HcReturn(w, "hc_setup_err", wat)
    /\ UNCHANGED <<allocVars, dpiVars, envVars, lis, probe, ses>>

\* one iteration of the loop over dpi.devs: watcher.Add(devicePath), which
\* fails when the file does not exist; after the last one, the select loop
HcAddDevice(w) ==
    /\ pc[w] = "hc_adddev"
    /\ LET id == devs[wat[w].i].ID
           last == wat[w].i = Len(devs)
       IN \/ /\ devFile[id]
             /\ wat' = [wat EXCEPT ![w].files = @ \cup {id},
                                   ![w].i = @ + 1,
                                   ![w].stopch = IF last THEN stop ELSE @]
             /\ Goto(w, IF last THEN "hc_loop" ELSE "hc_adddev")
             /\ UNCHANGED ret
          \/ HcReturn(w, "hc_setup_err", wat)
    /\ UNCHANGED <<allocVars, dpiVars, envVars, lis, probe, ses>>

\* case <-dpi.stop: return nil
HcStopped(w) ==
    /\ pc[w] = "hc_loop"
    /\ Closed(wat[w].stopch)
    /\ HcReturn(w, "hc_stopped", wat)
    /\ UNCHANGED <<allocVars, dpiVars, envVars, lis, probe, ses>>

\* case event := <-watcher.Events, event.Name in pathDeviceMap: Create leads
\* to dpi.healthy <- id, Remove and Rename to dpi.unhealthy <- id
HcDeviceEvent(w) ==
    /\ pc[w] = "hc_loop"
    /\ wat[w].q # <<>>
    /\ LET ev == Head(wat[w].q) IN
       /\ ev.Name \in DevIDs
       /\ wat' = [wat EXCEPT ![w].q = Tail(@), ![w].val = ev.Name]
       /\ Goto(w, IF ev.Op = "Create" THEN "hc_send_healthy" ELSE "hc_send_unhealthy")
    /\ UNCHANGED <<allocVars, dpiVars, envVars, lis, ret, probe, ses>>

\* event.Name == dpi.socketPath && event.Op == fsnotify.Remove: dpi.restart()
HcSocketRemoved(w) ==
    /\ pc[w] = "hc_loop"
    /\ wat[w].q # <<>>
    /\ LET ev == Head(wat[w].q) IN
       /\ ev.Name = SockName /\ ev.Op = "Remove"
       /\ wat' = [wat EXCEPT ![w].q = Tail(@)]
       /\ Goto(w, "restart_check")
    /\ UNCHANGED <<allocVars, dpiVars, envVars, lis, ret, probe, ses>>

----------------------------------------------------------------------------
(* GenericDevicePlugin.ListAndWatch                                         *)

\* a client calls ListAndWatch on the serving endpoint:
\* s.Send(&pluginapi.ListAndWatchResponse{Devices: dpi.devs}), then the select
ListAndWatchOpen(s) ==
    /\ ses[s].pc = "none"
    /\ sockFile \in 1..Len(srv) /\ srv[sockFile] = "serving"
    /\ ses' = [ses EXCEPT ![s] = [@ EXCEPT !.pc = "select", !.stopch = stop,
                                          !.last = devs, !.nSent = 1]]
    /\ UNCHANGED <<allocVars, dpiVars, envVars, lis, pc, ret, probe, wat>>

\* case unhealthy := <-dpi.unhealthy / case healthy := <-dpi.healthy: the
\* rendezvous with a healthCheck blocked in its send
ListAndWatchReceive(s, w) ==
    /\ ses[s].pc = "select"
    /\ pc[w] \in {"hc_send_healthy", "hc_send_unhealthy"}
    /\ ses' = [ses EXCEPT ![s] = [@ EXCEPT
                 !.pc = "mark",
                 !.sig = [kind |-> IF pc[w] = "hc_send_healthy" THEN Healthy ELSE Unhealthy,
                          id |-> wat[w].val],
                 !.nGot = @ + 1]]
    /\ Goto(w, "hc_loop")
    /\ wat' = [wat EXCEPT ![w].stopch = stop]
    /\ UNCHANGED <<allocVars, dpiVars, envVars, lis, ret, probe>>

\* the health tags after the loop "for _, dev := range dpi.devs" for one signal
MarkAll(ds, sig) == [i \in 1..Len(ds) |-> [ds[i] EXCEPT !.Health = sig.kind]]

Mark(ds, sig) ==
    [i \in 1..Len(ds) |->
        IF ds[i].ID = sig.id THEN [ds[i] EXCEPT !.Health = sig.kind] ELSE ds[i]]

ListAndWatchMark(s) ==
    /\ ses[s].pc = "mark"
    /\ devs' = Mark(devs, ses[s].sig)
    /\ ses' = [x \in Sessions |->
                 IF x = s THEN [ses[x] EXCEPT !.pc = "emit"]
                 ELSE [ses[x] EXCEPT !.dirty = @ \/ (devs' # devs)]]
    /\ UNCHANGED <<allocVars, server, stop, term, envVars, lis, pc, ret, probe, wat>>

\* s.Send(&pluginapi.ListAndWatchResponse{Devices: dpi.devs}), then the select
Emit(s) ==
    [ses[s] EXCEPT !.pc = "select", !.stopch = stop,
                   !.prev = ses[s].last, !.last = devs,
                   !.lastSig = ses[s].sig, !.sig = NoSig,
                   !.clean = ~ses[s].dirty, !.dirty = FALSE,
                   !.nSent = @ + 1]

ListAndWatchEmit(s) ==
    /\ ses[s].pc = "emit"
    /\ ses' = [ses EXCEPT ![s] = Emit(s)]
    /\ UNCHANGED <<allocVars, dpiVars, envVars, lis, pc, ret, probe, wat>>

\* case <-dpi.stop: return nil
ListAndWatchStopped(s) ==
    /\ ses[s].pc = "select"
    /\ Closed(ses[s].stopch)
    /\ ses' = [ses EXCEPT ![s] = [NewSessionState EXCEPT !.pc = "done"]]
    /\ UNCHANGED <<allocVars, dpiVars, envVars, lis, pc, ret, probe, wat>>

\* case <-dpi.term: return nil
ListAndWatchTerminated(s) ==
    /\ ses[s].pc = "select"
    /\ term > 0
    /\ term' = term - 1
    /\ ses' = [ses EXCEPT ![s] = [NewSessionState EXCEPT !.pc = "done"]]
    /\ UNCHANGED <<allocVars, devs, server, stop, envVars, lis, pc, ret, probe, wat>>

----------------------------------------------------------------------------
(* The environment                                                          *)

\* the instance serves, a healthCheck is in its select loop and a session is open
Serving == server # 0 /\ srv[server] = "serving"
WatcherRunning(w) == pc[w] \in {"hc_loop", "hc_send_healthy", "hc_send_unhealthy"}
SessionOpen(s) == ses[s].pc \in {"select", "mark", "emit"}
InScope ==
    /\ Serving
    /\ \E w \in Watchers : WatcherRunning(w)
    /\ \E s \in Sessions : SessionOpen(s)

\* a device-presence file is removed or renamed away
RemoveDeviceFile(id, op) ==
    /\ devFile[id] /\ fsOps < MaxFsOps
    /\ devFile' = [devFile EXCEPT ![id] = FALSE]
    /\ fsOps' = fsOps + 1
    /\ scoped' = [scoped EXCEPT ![id] = IF InScope THEN "removed" ELSE "none"]
    /\ LET ev == [Op |-> op, Name |-> id] IN
       wat' = FileNotify(IF devInSockDir THEN DirNotify(wat, ev) ELSE wat, ev)
    /\ UNCHANGED <<allocVars, dpiVars, srv, sockFile, devInSockDir, stopClosed, regs,
                   lis, pc, ret, probe, ses>>

\* a device-presence file is created: only a watched directory reports it
CreateDeviceFile(id) ==
    /\ ~devFile[id] /\ fsOps < MaxFsOps
    /\ devFile' = [devFile EXCEPT ![id] = TRUE]
    /\ fsOps' = fsOps + 1
    /\ scoped' = [scoped EXCEPT ![id] = IF InScope /\ @ = "removed" THEN "created" ELSE "none"]
    /\ wat' = IF devInSockDir THEN DirNotify(wat, [Op |-> "Create", Name |-> id]) ELSE wat
    /\ UNCHANGED <<allocVars, dpiVars, srv, sockFile, devInSockDir, stopClosed, regs,
                   lis, pc, ret, probe, ses>>

\* the kubelet restarts and clears its device-plugin directory
RemoveSocketFile ==
    /\ sockFile # 0
    /\ sockFile' = 0
    /\ wat' = UnlinkSock(wat)
    /\ UNCHANGED <<allocVars, dpiVars, srv, devFile, devInSockDir, stopClosed, regs,
                   fsOps, scoped, lis, pc, ret, probe, ses>>

\* the process-wide shutdown signal: close(stop)
CloseStop ==
    /\ ~stopClosed
    /\ stopClosed' = TRUE
    /\ UNCHANGED <<allocVars, dpiVars, srv, sockFile, devFile, devInSockDir, regs,
                   fsOps, scoped, thrVars>>

----------------------------------------------------------------------------
(* Specifications                                                           *)

\* no discovery pass and no controller: the package variables keep their zero values
DiscIdle ==
    /\ deviceMap = <<>> /\ nvSwitchDeviceIDs = <<>> /\ pciDevs = <<>>
    /\ pciErr = FALSE /\ passes = 0 /\ passRes = "none"

MgrIdle ==
    /\ PGPUAlias = "" /\ NVSwitchAlias = "" /\ plugins = <<>> /\ devicePlugins = <<>>
    /\ iommufdSupported = FALSE /\ todo = {} /\ cpc = "idle" /\ sockFiles = <<>> /\ removed = {}

CdiIdle ==
    /\ cdiFiles = <<>> /\ cdiLog = <<>> /\ cdiPc = "idle" /\ cdiTodo = {} /\ cdiRet = "none"

FnIdle == fnIn = <<>> /\ fnOut = <<>> /\ fnCalls = 0

AllocIdle ==
    /\ iommuMap = <<>> /\ iommuDev = "absent" /\ allocCalled = FALSE
    /\ allocReqs = <<>> /\ allocResp = NilResponse /\ allocErr = FALSE
    /\ DiscIdle /\ MgrIdle /\ CdiIdle /\ FnIdle

\* NewGenericDevicePlugin, with the device list the controller builds
PluginInitVars ==
    /\ devs = [i \in 1..Len(InstanceDevs) |-> [ID |-> InstanceDevs[i], Health |-> Healthy]]
    /\ server = 0 /\ stop = "nil" /\ term = 0
    /\ srv = <<>> /\ sockFile \in {0, Stale}
    /\ devFile = [id \in DevIDs |-> TRUE]
    /\ devInSockDir \in BOOLEAN
    /\ stopClosed = FALSE /\ regs = 0 /\ fsOps = 0
    /\ scoped = [id \in DevIDs |-> "none"]
    /\ lis = [t \in Threads |-> 0]
    /\ pc = [t \in Threads |-> IF t = Main THEN "idle" ELSE "unborn"]
    /\ ret = [t \in Threads |-> "none"]
    /\ probe = [t \in Threads |-> "none"]
    /\ wat = [w \in Watchers |-> NewWatcherState]
    /\ ses = [s \in Sessions |-> NewSessionState]

PluginIdle ==
    /\ devs = <<>> /\ server = 0 /\ stop = "nil" /\ term = 0
    /\ srv = <<>> /\ sockFile = 0 /\ devFile = <<>> /\ devInSockDir = FALSE
    /\ stopClosed = FALSE /\ regs = 0 /\ fsOps = 0 /\ scoped = <<>>
    /\ lis = <<>> /\ pc = <<>> /\ ret = <<>> /\ probe = <<>> /\ wat = <<>> /\ ses = <<>>

AllocInit == AllocInitVars /\ DiscIdle /\ MgrIdle /\ CdiIdle /\ FnIdle /\ PluginIdle
AllocNext == Allocate
AllocSpec == AllocInit /\ [][AllocNext]_vars

\* the steps of Start and Stop, by the caller or by a restarting healthCheck
StartStep(t) ==
    \/ StartCheck(t) \/ StartSetStop(t) \/ StartCleanup(t) \/ StartListen(t)
    \/ StartServer(t) \/ StartProbe(t) \/ StartRegister(t) \/ StartGoHealthCheck(t)

StopStep(t) ==
    \/ StopCheck(t) \/ StopTerm(t) \/ StopServer(t) \/ StopNil(t) \/ StopCleanup(t)

\* healthCheck up to its select loop, and the shutdown case of the loop
HcSetupStep(w) ==
    \/ HcNewWatcher(w) \/ HcAddSocketDir(w) \/ HcStat(w) \/ HcAddDevice(w)
    \/ HcStopped(w)

\* Spec: the lifecycle of the instance. Start, Stop, the socket-removal restart
\* and the end of the sessions; the device files are left alone.
Init == PluginInitVars /\ devInSockDir = FALSE /\ AllocIdle

Next ==
    \/ StartCall \/ StopCall
    \/ (\E t \in Threads : StartStep(t) \/ StopStep(t))
    \/ (\E w \in Watchers : HcSetupStep(w) \/ HcSocketRemoved(w) \/ RestartCheck(w))
    \/ (\E s \in Sessions :
            ListAndWatchOpen(s) \/ ListAndWatchStopped(s) \/ ListAndWatchTerminated(s))
    \/ RemoveSocketFile
    \/ CloseStop

Spec == Init /\ [][Next]_vars

\* FairSpec: every goroutine that can take a step eventually takes one; the
\* callers of Start and Stop, the kubelet and the shutdown signal are free
FairSpec ==
    /\ Spec
    /\ \A t \in Threads : WF_vars(StartStep(t) \/ StopStep(t))
    /\ \A w \in Watchers : WF_vars(HcSetupStep(w) \/ HcSocketRemoved(w) \/ RestartCheck(w))
    /\ \A s \in Sessions : WF_vars(ListAndWatchStopped(s) \/ ListAndWatchTerminated(s))

\* HealthSpec: the health path of a started instance. The device files come
\* and go, the watcher signals, the sessions re-emit; no Stop and no restart.
HealthInit == PluginInitVars /\ sockFile = 0 /\ AllocIdle

HealthNext ==
    \/ StartCall
    \/ StartStep(Main)
    \/ (\E w \in Watchers : HcSetupStep(w) \/ HcDeviceEvent(w))
    \/ (\E s \in Sessions :
            \/ ListAndWatchOpen(s) \/ (\E w \in Watchers : ListAndWatchReceive(s, w))
            \/ ListAndWatchMark(s) \/ ListAndWatchEmit(s) \/ ListAndWatchStopped(s))
    \/ (\E id \in DevIDs, op \in {"Remove", "Rename"} : RemoveDeviceFile(id, op))
    \/ (\E id \in DevIDs : CreateDeviceFile(id))
    \/ CloseStop

HealthSpec == HealthInit /\ [][HealthNext]_vars

\* FairHealthSpec: every goroutine that can take a step eventually takes one;
\* the device files and the shutdown signal are free
FairHealthSpec ==
    /\ HealthSpec
    /\ WF_vars(StartStep(Main))
    /\ \A w \in Watchers : WF_vars(HcSetupStep(w) \/ HcDeviceEvent(w))
    /\ \A s \in Sessions :
        /\ WF_vars(\E w \in Watchers : ListAndWatchReceive(s, w))
        /\ WF_vars(ListAndWatchMark(s) \/ ListAndWatchEmit(s) \/ ListAndWatchStopped(s))

----------------------------------------------------------------------------
(* The controller of one instance (CtlSpec)                                 *)

StartFailures == {"start_already", "start_cleanup_err", "start_listen_err", "start_register_err"}
StopResults == {"stop_ok", "stop_err", "stop_noop"}

\* err := startDevicePlugin(dp), in the loop over deviceMap
CtlStart ==
    /\ ret[Main] = "none"
    /\ StartCall

\* <-stop, then v.Stop() for the tracked instance
CtlStop ==
    /\ stopClosed
    /\ ret[Main] = "start_ok"
    /\ StopCall

\* <-stop, then the end of createDevicePlugins: every tracked instance has been
\* stopped (an instance whose Start failed is not tracked)
CtlReturn ==
    /\ pc[Main] = "idle" /\ stopClosed
    /\ ret[Main] \in StartFailures \cup StopResults
    /\ Goto(Main, "ctl_returned")
    /\ UNCHANGED <<allocVars, dpiVars, envVars, lis, ret, probe, wat, ses>>

\* CtlSpec: createDevicePlugins for a class index of one class, with the
\* instance, its watchers and its sessions
CtlNext ==
    \/ CtlStart \/ CtlStop \/ CtlReturn
    \/ (\E t \in Threads : StartStep(t) \/ StopStep(t))
    \/ (\E w \in Watchers : HcSetupStep(w) \/ HcSocketRemoved(w) \/ RestartCheck(w))
    \/ (\E s \in Sessions :
            ListAndWatchOpen(s) \/ ListAndWatchStopped(s) \/ ListAndWatchTerminated(s))
    \/ RemoveSocketFile
    \/ CloseStop

CtlSpec == Init /\ [][CtlNext]_vars

\* FairCtlSpec: the controller and every goroutine that can take a step
\* eventually take one; the kubelet and the shutdown signal are free
FairCtlSpec ==
    /\ CtlSpec
    /\ WF_vars(CtlStart \/ CtlStop \/ CtlReturn)
    /\ \A t \in Threads : WF_vars(StartStep(t) \/ StopStep(t))
    /\ \A w \in Watchers : WF_vars(HcSetupStep(w) \/ HcSocketRemoved(w) \/ RestartCheck(w))
    /\ \A s \in Sessions : WF_vars(ListAndWatchStopped(s) \/ ListAndWatchTerminated(s))

----------------------------------------------------------------------------
(* Discovery: createIommuDeviceMap                                          *)

MaxPciDevs == 2       \* devices the enumeration provider returns
MaxGroups == 2        \* IOMMU group numbers on the host
MaxPasses == 2        \* discovery passes per run

\* the device models on the host: PCI device ID, PCI class, name of the ID
PciModels ==
    {[Device |-> 7040, Class |-> "3d", DeviceName |-> <<"G", "P", "1", "0", "4", " ", "[", "G", "T", "X", " ", "1", "0", "8", "0", "]">>],
     [Device |-> 7041, Class |-> "vga", DeviceName |-> <<"G", "P", "1", "0", "4", " ", "[", "G", "T", "X", " ", "1", "0", "7", "0", "]">>],
     [Device |-> 8867, Class |-> "nvswitch", DeviceName |-> <<"G", "H", "1", "0", "0", " ", "[", "H", "1", "0", "0", " ", "N", "V", "S", "w", "i", "t", "c", "h", "]">>],
     [Device |-> 4336, Class |-> "audio", DeviceName |-> <<"G", "P", "1", "0", "4", " ", "H", "D", " ", "A", "u", "d", "i", "o">>]}
Drivers == {"vfio-pci", "nvidia"}

\* nvpci.NvidiaPCIDevice number i of an enumeration; only a device bound to
\* vfio-pci has a vfio character device, named after its position
PciDevice(i, m, drv, g, hasFd) ==
    [Address |-> "0000:0" \o ToString(i) \o ":00.0", Device |-> m.Device,
     Class |-> m.Class, DeviceName |-> m.DeviceName, Driver |-> drv, IommuGroup |-> g,
     IommuFD |-> IF hasFd /\ drv = "vfio-pci" THEN "vfio" \o ToString(i - 1) ELSE ""]
PciChoices ==
    {c \in [m : PciModels, drv : Drivers, g : 1..MaxGroups, fd : BOOLEAN] :
        c.fd => c.drv = "vfio-pci"}
PciLists ==
    UNION {{[i \in 1..n |-> PciDevice(i, c[i].m, c[i].drv, c[i].g, c[i].fd)] :
              c \in [1..n -> PciChoices]} : n \in 0..MaxPciDevs}

IsGPU(dev) == dev.Class \in {"3d", "vga"}
IsNVSwitch(dev) == dev.Class = "nvswitch"

\* strconv.Itoa and fmt.Sprintf("%04x", _)
Itoa(n) == ToString(n)
HexDigits == <<"0", "1", "2", "3", "4", "5", "6", "7", "8", "9", "a", "b", "c", "d", "e", "f">>
Hex4(n) ==
    HexDigits[((n \div 4096) % 16) + 1] \o HexDigits[((n \div 256) % 16) + 1]
    \o HexDigits[((n \div 16) % 16) + 1] \o HexDigits[(n % 16) + 1]

\* append(m[k], v) on a map of slices, and m[k] = v
MapAppend(m, k, v) ==
    [x \in DOMAIN m \cup {k} |-> IF x = k THEN (IF k \in DOMAIN m THEN Append(m[k], v) ELSE <<v>>)
                                 ELSE m[x]]
MapPut(m, k, v) == [x \in DOMAIN m \cup {k} |-> IF x = k THEN v ELSE m[x]]

\* the two filters at the head of the loop body
Kept_AnyDriver(dev) == IsGPU(dev) \/ IsNVSwitch(dev)

Kept(dev) ==
    IF ~IsGPU(dev) /\ ~IsNVSwitch(dev) THEN FALSE
    ELSE IF dev.Driver # "vfio-pci" THEN FALSE
    ELSE TRUE

\* the unit key of a kept device
IommuKey_GroupOnly(dev, fd) == Itoa(dev.IommuGroup)

IommuKey(dev, fd) ==
    IF fd /\ dev.IommuFD # "" THEN dev.IommuFD ELSE Itoa(dev.IommuGroup)

\* the class index after a kept device: its key is appended only if no unit has it yet
ClassIndexAdd_Always(dm, im, deviceID, iommuKey) == MapAppend(dm, deviceID, iommuKey)

ClassIndexAdd(dm, im, deviceID, iommuKey) ==
    IF iommuKey \notin DOMAIN im THEN MapAppend(dm, deviceID, iommuKey) ELSE dm

NvidiaPCIDevice(dev) ==
    [Address |-> dev.Address, DeviceID |-> dev.Device, DeviceName |-> dev.DeviceName,
     IommuGroup |-> dev.IommuGroup, IommuFD |-> dev.IommuFD, IsNVSwitch |-> IsNVSwitch(dev)]

\* the three indexes, and the loop over the enumerated devices
Indexes(im, dm, sw) == [iommuMap |-> im, deviceMap |-> dm, nvSwitchDeviceIDs |-> sw]
EmptyIndexes == Indexes(<<>>, <<>>, <<>>)

RECURSIVE DiscoverLoop(_, _, _)
DiscoverLoop(devices, fd, ix) ==
    IF devices = <<>> THEN ix
    ELSE LET dev == Head(devices) IN
         IF ~Kept(dev) THEN DiscoverLoop(Tail(devices), fd, ix)
         ELSE LET iommuKey == IommuKey(dev, fd)
                  deviceID == Hex4(dev.Device)
                  dm == ClassIndexAdd(ix.deviceMap, ix.iommuMap, deviceID, iommuKey)
                  sw == IF IsNVSwitch(dev) THEN MapPut(ix.nvSwitchDeviceIDs, deviceID, TRUE)
                        ELSE ix.nvSwitchDeviceIDs
                  im == MapAppend(ix.iommuMap, iommuKey, NvidiaPCIDevice(dev))
              IN DiscoverLoop(Tail(devices), fd, Indexes(im, dm, sw))

\* one pass: its outcome and the indexes it leaves
PassResult(cur, devices, enumErr, st) ==
    LET cap == supportsIOMMUFD(st) IN
    IF ~cap.ok THEN [res |-> "cap_err", ix |-> cur]
    ELSE IF enumErr THEN [res |-> "enum_err", ix |-> EmptyIndexes]
    ELSE [res |-> "ok", ix |-> DiscoverLoop(devices, cap.val, EmptyIndexes)]

createIommuDeviceMap ==
    LET r == PassResult(Indexes(iommuMap, deviceMap, nvSwitchDeviceIDs), pciDevs, pciErr,
                        iommuDev) IN
    /\ passes < MaxPasses
    /\ cpc = "idle"
    /\ passes' = passes + 1
    /\ passRes' = r.res
    /\ iommuMap' = r.ix.iommuMap
    /\ deviceMap' = r.ix.deviceMap
    /\ nvSwitchDeviceIDs' = r.ix.nvSwitchDeviceIDs
    /\ UNCHANGED <<iommuDev, allocCalled, allocReqs, allocResp, allocErr, pciDevs, pciErr,
                   mgrVars, cdiVars, fnVars, dpiVars, envVars, thrVars>>

\* between two passes the capability path and the provider may change
ProviderChange ==
    /\ passes \in 1..(MaxPasses - 1)
    /\ \E st \in {"exists", "absent", "error"}, e \in BOOLEAN :
          /\ <<st, e>> # <<iommuDev, pciErr>>
          /\ iommuDev' = st
          /\ pciErr' = e
    /\ UNCHANGED <<iommuMap, allocCalled, allocReqs, allocResp, allocErr, deviceMap,
                   nvSwitchDeviceIDs, pciDevs, passes, passRes, mgrVars, cdiVars, fnVars,
                   dpiVars, envVars,
                   thrVars>>

DiscInitVars ==
    /\ iommuMap = <<>> /\ deviceMap = <<>> /\ nvSwitchDeviceIDs = <<>>
    /\ iommuDev \in {"exists", "absent", "error"}
    /\ pciDevs \in PciLists
    /\ pciErr \in BOOLEAN
    /\ passes = 0 /\ passRes = "none"
    /\ allocCalled = FALSE /\ allocReqs = <<>> /\ allocResp = NilResponse /\ allocErr = FALSE

DiscInit == DiscInitVars /\ MgrIdle /\ CdiIdle /\ FnIdle /\ PluginIdle
DiscNext == createIommuDeviceMap \/ ProviderChange
DiscSpec == DiscInit /\ [][DiscNext]_vars

----------------------------------------------------------------------------
(* The controller over all classes: InitiateDevicePlugin, createDevicePlugins *)

LowerCase == <<"a", "b", "c", "d", "e", "f", "g", "h", "i", "j", "k", "l", "m", "n", "o", "p", "q", "r", "s", "t", "u", "v", "w", "x", "y", "z">>
UpperCase == <<"A", "B", "C", "D", "E", "F", "G", "H", "I", "J", "K", "L", "M", "N", "O", "P", "Q", "R", "S", "T", "U", "V", "W", "X", "Y", "Z">>
DigitChars == <<"0", "1", "2", "3", "4", "5", "6", "7", "8", "9">>
SeqRange(q) == {q[i] : i \in 1..Len(q)}
ToUpper_Identity(c) == c

ToUpper(c) ==
    IF c \in SeqRange(LowerCase)
    THEN UpperCase[CHOOSE i \in 1..Len(LowerCase) : LowerCase[i] = c]
    ELSE c
IsSpace(c) == c \in {" ", "\t", "\n", "\r", "\f"}

\* regexp \s+ replaced by "_": every run of whitespace becomes one underscore
RECURSIVE CollapseSpace(_, _)
CollapseSpace(name, inRun) ==
    IF name = <<>> THEN <<>>
    ELSE IF IsSpace(Head(name))
         THEN (IF inRun THEN <<>> ELSE <<"_">>) \o CollapseSpace(Tail(name), TRUE)
         ELSE <<Head(name)>> \o CollapseSpace(Tail(name), FALSE)

\* the characters [a-zA-Z0-9_-] that the last replacement keeps
NameChars == SeqRange(LowerCase) \cup SeqRange(UpperCase) \cup SeqRange(DigitChars) \cup {"_", "-"}
IsNameChar(c) == c \in NameChars

\* formatDeviceName, on a name given as its sequence of characters
formatDeviceName(name) ==
    IF name = <<>> THEN <<>>
    ELSE LET upper == [i \in 1..Len(name) |-> ToUpper(name[i])]
             under == [i \in 1..Len(name) |-> IF upper[i] \in {"/", "."} THEN "_" ELSE upper[i]]
         IN SelectSeq(CollapseSpace(under, FALSE), IsNameChar)

\* the string of a sequence of characters
RECURSIVE Str(_)
Str(cs) == IF cs = <<>> THEN "" ELSE Head(cs) \o Str(Tail(cs))

isNVSwitchDeviceID(deviceID) ==
    deviceID \in DOMAIN nvSwitchDeviceIDs /\ nvSwitchDeviceIDs[deviceID]

\* getDeviceNameForID: the units are visited in the map's order, which is any
\* order; the result is the name of the first device of the class in the first
\* unit that has one, and "" if no unit has one
FirstOfClass(devices, deviceID) ==
    LET hits == {i \in 1..Len(devices) : Hex4(devices[i].DeviceID) = deviceID} IN
    IF hits = {} THEN {}
    ELSE {devices[CHOOSE i \in hits : \A j \in hits : i <= j]}
getDeviceNameForID(deviceID) ==
    LET firsts == UNION {FirstOfClass(iommuMap[k], deviceID) : k \in DOMAIN iommuMap} IN
    IF firsts = {} THEN {""}
    ELSE {Str(formatDeviceName(dev.DeviceName)) : dev \in firsts}

\* the name of the instance of a class, given the result of getDeviceNameForID
DeviceNameOf(deviceID, found) ==
    LET deviceName ==
          IF isNVSwitchDeviceID(deviceID)
          THEN (IF NVSwitchAlias # "" THEN NVSwitchAlias ELSE found)
          ELSE IF PGPUAlias # "" THEN PGPUAlias
          ELSE found
    IN IF deviceName = "" THEN deviceID ELSE deviceName

\* the device list of a class: the loop variable is reset, then one Healthy
\* device is appended per unit key
ClassDevs_NoReset(carried, iommuKeys) ==
    carried \o [i \in 1..Len(iommuKeys) |-> [ID |-> iommuKeys[i], Health |-> Healthy]]

ClassDevs(carried, iommuKeys) ==
    [i \in 1..Len(iommuKeys) |-> [ID |-> iommuKeys[i], Health |-> Healthy]]

DevicePluginPath == "/var/lib/kubelet/device-plugins/"

NewGenericDevicePlugin(deviceName, devicePath, devices) ==
    [devs |-> devices, socketPath |-> DevicePluginPath \o "sandbox-" \o deviceName \o ".sock",
     deviceName |-> deviceName, devicePath |-> devicePath]

\* the tracked list after startDevicePlugin(dp) has returned for instance p
Track_Always(tracked, p, outcome) == Append(tracked, p)

Track(tracked, p, outcome) ==
    IF outcome # "start_ok" THEN tracked ELSE Append(tracked, p)

\* the instances in devicePlugins
Tracked == {devicePlugins[k] : k \in 1..Len(devicePlugins)}
OwnerOf(path) == IF path \in DOMAIN sockFiles THEN sockFiles[path] ELSE 0

\* os.Remove(path), or the unlink done by closing the listener bound to it
RemoveFile(files, path) == [x \in DOMAIN files \ {path} |-> files[x]]
\* whose file a removal at path by instance p destroys
Victims(p, path) == IF OwnerOf(path) \notin {0, p} THEN {<<p, OwnerOf(path)>>} ELSE {}

\* dp.Start(stop) on a fresh instance, by its outcome: cleanup removes the file
\* at the socket path, net.Listen creates it again
StartOutcomes == {"start_ok", "start_cleanup_err", "start_listen_err", "start_register_err"}
StartFiles(p, path, outcome) ==
    IF outcome = "start_cleanup_err" THEN sockFiles
    ELSE IF outcome = "start_listen_err" THEN RemoveFile(sockFiles, path)
    ELSE MapPut(sockFiles, path, p)

\* supportsIOMMUFD at the head of createDevicePlugins, after InitiateDevicePlugin
\* has run the discovery pass
CreateBegin ==
    LET cap == supportsIOMMUFD(iommuDev) IN
    /\ cpc = "idle" /\ passes > 0
    /\ IF ~cap.ok
       THEN cpc' = "returned" /\ UNCHANGED <<iommufdSupported, todo>>
       ELSE /\ cpc' = "loop"
            /\ iommufdSupported' = cap.val
            /\ todo' = DOMAIN deviceMap
    /\ UNCHANGED <<iommuMap, iommuDev, allocCalled, allocReqs, allocResp, allocErr, discVars,
                   cdiVars, fnVars,
                   PGPUAlias, NVSwitchAlias, plugins, devicePlugins, sockFiles, removed,
                   dpiVars, envVars, thrVars>>

\* one iteration of the range loop: any class not visited yet
CreateIteration ==
    /\ cpc = "loop"
    /\ \E deviceID \in todo, outcome \in StartOutcomes :
       \E found \in getDeviceNameForID(deviceID) :
          LET carried == IF plugins = <<>> THEN <<>> ELSE plugins[Len(plugins)].dp.devs
              devices == ClassDevs(carried, deviceMap[deviceID])
              deviceName == DeviceNameOf(deviceID, found)
              devicePath == IF iommufdSupported THEN "/dev/vfio/devices/" ELSE "/dev/vfio/"
              dp == NewGenericDevicePlugin(deviceName, devicePath, devices)
              p == Len(plugins) + 1
          IN /\ plugins' = Append(plugins, [dp |-> dp, class |-> deviceID, res |-> outcome,
                                            stopped |-> FALSE])
             /\ devicePlugins' = Track(devicePlugins, p, outcome)
             /\ sockFiles' = StartFiles(p, dp.socketPath, outcome)
             /\ removed' = IF outcome = "start_cleanup_err" THEN removed
                           ELSE removed \cup Victims(p, dp.socketPath)
             /\ todo' = todo \ {deviceID}
    /\ UNCHANGED <<iommuMap, iommuDev, allocCalled, allocReqs, allocResp, allocErr, discVars,
                   cdiVars, fnVars,
                   PGPUAlias, NVSwitchAlias, iommufdSupported, cpc, dpiVars, envVars, thrVars>>

\* <-stop after the loop
CreateWait ==
    /\ cpc = "loop" /\ todo = {}
    /\ stopClosed
    /\ cpc' = "stopping"
    /\ UNCHANGED <<iommuMap, iommuDev, allocCalled, allocReqs, allocResp, allocErr, discVars,
                   cdiVars, fnVars,
                   PGPUAlias, NVSwitchAlias, plugins, devicePlugins, iommufdSupported, todo,
                   sockFiles, removed, dpiVars, envVars, thrVars>>

\* v.Stop() on the next tracked instance: closing its listener and its cleanup
\* both remove the file at its socket path
CreateStop ==
    /\ cpc = "stopping"
    /\ \E k \in 1..Len(devicePlugins) :
          LET p == devicePlugins[k] IN
          /\ ~plugins[p].stopped
          /\ \A j \in 1..(k - 1) : plugins[devicePlugins[j]].stopped
          /\ plugins' = [plugins EXCEPT ![p].stopped = TRUE]
          /\ sockFiles' = RemoveFile(sockFiles, plugins[p].dp.socketPath)
          /\ removed' = removed \cup Victims(p, plugins[p].dp.socketPath)
    /\ UNCHANGED <<iommuMap, iommuDev, allocCalled, allocReqs, allocResp, allocErr, discVars,
                   cdiVars, fnVars,
                   PGPUAlias, NVSwitchAlias, devicePlugins, iommufdSupported, todo, cpc,
                   dpiVars, envVars, thrVars>>

CreateReturn ==
    /\ cpc = "stopping"
    /\ \A k \in 1..Len(devicePlugins) : plugins[devicePlugins[k]].stopped
    /\ cpc' = "returned"
    /\ UNCHANGED <<iommuMap, iommuDev, allocCalled, allocReqs, allocResp, allocErr, discVars,
                   cdiVars, fnVars,
                   PGPUAlias, NVSwitchAlias, plugins, devicePlugins, iommufdSupported, todo,
                   sockFiles, removed, dpiVars, envVars, thrVars>>

\* InitiateDevicePlugin: one discovery pass, then the controller
InitiatePass == passes = 0 /\ createIommuDeviceMap

MgrInitVars ==
    /\ PGPUAlias \in {"", "pgpu"}
    /\ NVSwitchAlias \in {"", "nvswitch"}
    /\ plugins = <<>> /\ devicePlugins = <<>> /\ iommufdSupported = FALSE
    /\ todo = {} /\ cpc = "idle" /\ sockFiles = <<>> /\ removed = {}

InitiateInit == DiscInitVars /\ MgrInitVars /\ CdiIdle /\ FnIdle /\ PluginIdle
InitiateNext ==
    \/ InitiatePass \/ CreateBegin \/ CreateIteration \/ CreateWait \/ CreateStop
    \/ CreateReturn \/ CloseStop
InitiateSpec == InitiateInit /\ [][InitiateNext]_vars

----------------------------------------------------------------------------
(* formatDeviceName as a function of its argument (FormatSpec)              *)

MaxNameLen == 3       \* characters of a device name
MaxFormatCalls == 2   \* successive applications of formatDeviceName

\* a lower-case and an upper-case letter, a digit, two kinds of whitespace, the
\* two replaced characters, the two kept punctuation characters, a stripped one
NameAlphabet == {"a", "Z", "7", " ", "\t", "/", ".", "_", "-", "["}

\* no Allocate call, no discovery pass, no controller, no CDI generation
PackageIdle ==
    /\ iommuMap = <<>> /\ iommuDev = "absent" /\ allocCalled = FALSE
    /\ allocReqs = <<>> /\ allocResp = NilResponse /\ allocErr = FALSE
    /\ DiscIdle /\ MgrIdle /\ CdiIdle

\* formatDeviceName applied to the name, then to its own result
FormatCall ==
    /\ fnCalls < MaxFormatCalls
    /\ fnOut' = formatDeviceName(IF fnCalls = 0 THEN fnIn ELSE fnOut)
    /\ fnCalls' = fnCalls + 1
    /\ UNCHANGED <<iommuMap, iommuDev, allocCalled, allocReqs, allocResp, allocErr, discVars,
                   mgrVars, cdiVars, fnIn, dpiVars, envVars, thrVars>>

FormatInit ==
    /\ fnIn \in SeqsUpTo(NameAlphabet, MaxNameLen)
    /\ fnOut = <<>> /\ fnCalls = 0
    /\ PackageIdle /\ PluginIdle
FormatNext == FormatCall
FormatSpec == FormatInit /\ [][FormatNext]_vars

----------------------------------------------------------------------------

(* The order of the unit keys in a CDI descriptor: extractNumber, sort.Slice *)

MaxSortKeys == 3      \* unit keys in one list

\* strings.TrimLeft(s, letters)
AsciiLetters == SeqRange(LowerCase) \cup SeqRange(UpperCase)
RECURSIVE TrimLeftLetters(_)
TrimLeftLetters(cs) ==
    IF cs # <<>> /\ Head(cs) \in AsciiLetters THEN TrimLeftLetters(Tail(cs)) ELSE cs

\* strconv.Atoi: an optional sign and at least one decimal digit
DigitValue(c) == (CHOOSE i \in 1..Len(DigitChars) : DigitChars[i] = c) - 1
RECURSIVE DecimalValue(_, _)
DecimalValue(cs, acc) ==
    IF cs = <<>> THEN acc ELSE DecimalValue(Tail(cs), 10 * acc + DigitValue(Head(cs)))
Atoi(cs) ==
    LET signed == cs # <<>> /\ Head(cs) \in {"+", "-"}
        digits == IF signed THEN Tail(cs) ELSE cs
    IN IF digits = <<>> \/ \E i \in 1..Len(digits) : digits[i] \notin SeqRange(DigitChars)
       THEN [ok |-> FALSE, n |-> 0]
       ELSE [ok |-> TRUE,
             n |-> IF signed /\ Head(cs) = "-" THEN 0 - DecimalValue(digits, 0)
                   ELSE DecimalValue(digits, 0)]

\* extractNumber, on a key given as its sequence of characters
extractNumber(cs) ==
    LET r == Atoi(TrimLeftLetters(cs)) IN
    IF ~r.ok THEN 0 ELSE r.n

\* sort.Slice with less(i, j) = number[keys[i]] < number[keys[j]]: for the short
\* lists of the model it is an insertion sort, in which an element moves left
\* while it is less than its predecessor
RECURSIVE SinkLeft(_, _, _)
SinkLeft(keys, j, number) ==
    IF j > 1 /\ number[keys[j]] < number[keys[j - 1]]
    THEN SinkLeft([keys EXCEPT ![j] = keys[j - 1], ![j - 1] = keys[j]], j - 1, number)
    ELSE keys
RECURSIVE InsertionSort(_, _, _)
InsertionSort(keys, i, number) ==
    IF i > Len(keys) THEN keys
    ELSE InsertionSort(SinkLeft(keys, i, number), i + 1, number)
SortKeys(keys, number) == InsertionSort(keys, 2, number)

\* the keys of the lists: group numbers and fd-handle names
SortKeyUniverse ==
    {<<"8">>, <<"1", "0">>, <<"v", "f", "i", "o", "8">>, <<"v", "f", "i", "o", "9">>,
     <<"v", "f", "i", "o", "1", "0">>}
Distinct(q) == \A i, j \in 1..Len(q) : i # j => q[i] # q[j]

\* the sorted copy that generateCDISpecForClass makes of its list of keys
SortCall ==
    /\ fnCalls = 0
    /\ fnOut' = SortKeys(fnIn, [k \in SeqRange(fnIn) |-> extractNumber(k)])
    /\ fnCalls' = 1
    /\ UNCHANGED <<iommuMap, iommuDev, allocCalled, allocReqs, allocResp, allocErr, discVars,
                   mgrVars, cdiVars, fnIn, dpiVars, envVars, thrVars>>

SortInit ==
    /\ fnIn \in {q \in SeqsUpTo(SortKeyUniverse, MaxSortKeys) : Distinct(q)}
    /\ fnOut = <<>> /\ fnCalls = 0
    /\ PackageIdle /\ PluginIdle
SortNext == SortCall
SortSpec == SortInit /\ [][SortNext]_vars

----------------------------------------------------------------------------

(* CDI generation: GenerateCDISpec, generateCDISpecForClass (CdiSpec)       *)

cdiVendor == "nvidia.com"
kataCompatibleCDIVersion == "0.5.0"

\* two device IDs that the PCI ID database does not know: the enumeration
\* provider gives both the same name
UnknownModels ==
    {[Device |-> 16352, Class |-> "3d", DeviceName |-> <<"U", "N", "K", "N", "O", "W", "N", "_", "D", "E", "V", "I", "C", "E">>],
     [Device |-> 16353, Class |-> "3d", DeviceName |-> <<"U", "N", "K", "N", "O", "W", "N", "_", "D", "E", "V", "I", "C", "E">>]}
CdiChoices ==
    {c \in [m : PciModels \cup UnknownModels, drv : Drivers, g : 1..MaxGroups, fd : BOOLEAN] :
        c.fd => c.drv = "vfio-pci"}
CdiLists ==
    UNION {{[i \in 1..n |-> PciDevice(i, c[i].m, c[i].drv, c[i].g, c[i].fd)] :
              c \in [1..n -> CdiChoices]} : n \in 0..MaxPciDevs}

\* the characters of a unit key: of a decimal number, or of "vfio" and one
RECURSIVE DecimalChars(_)
DecimalChars(n) ==
    IF n < 10 THEN <<DigitChars[n + 1]>>
    ELSE Append(DecimalChars(n \div 10), DigitChars[(n % 10) + 1])
UnitKeyChars ==
    UNION {{DecimalChars(n), <<"v", "f", "i", "o">> \o DecimalChars(n)} :
             n \in 0..(MaxGroups + MaxPciDevs)}
Chars(key) == CHOOSE cs \in UnitKeyChars : Str(cs) = key

\* the device nodes of one entry
CdiNodes_AlwaysLegacy(dev, iommuKey, fd) ==
    <<Join(vfioDevicePath, "vfio"), Join(vfioDevicePath, iommuKey)>>

CdiNodes(dev, iommuKey, fd) ==
    IF fd /\ dev.IommuFD # ""
    THEN <<Join(Join(vfioDevicePath, "devices"), dev.IommuFD)>>
    ELSE <<Join(vfioDevicePath, "vfio"), Join(vfioDevicePath, iommuKey)>>

\* the two nested loops: one entry per device of every key, in the order given
RECURSIVE CdiDeviceSpecs(_, _)
CdiDeviceSpecs(sortedKeys, fd) ==
    IF sortedKeys = <<>> THEN <<>>
    ELSE LET iommuKey == Head(sortedKeys)
             devices == IF iommuKey \in DOMAIN iommuMap THEN iommuMap[iommuKey] ELSE <<>>
         IN [i \in 1..Len(devices) |->
                [Name |-> iommuKey, DeviceNodes |-> CdiNodes(devices[i], iommuKey, fd)]]
            \o CdiDeviceSpecs(Tail(sortedKeys), fd)

\* cdiapi.GenerateNameForSpec: the file name of a descriptor, from its kind
SpecName(class) == cdiVendor \o "-" \o class

\* generateCDISpecForClass(class, scopedIommuKeys); writeFails: whether naming
\* the descriptor, creating the cache or writing the file fails
GenerateForClass(files, class, scopedIommuKeys, writeFails) ==
    LET cap == supportsIOMMUFD(iommuDev)
        sortedKeys == SortKeys(scopedIommuKeys,
                               [k \in SeqRange(scopedIommuKeys) |-> extractNumber(Chars(k))])
        deviceSpecs == CdiDeviceSpecs(sortedKeys, cap.val)
        spec == [Version |-> kataCompatibleCDIVersion, Kind |-> cdiVendor \o "/" \o class,
                 Devices |-> deviceSpecs]
    IN IF ~cap.ok THEN [res |-> "err", files |-> files, keys |-> <<>>]
       ELSE IF deviceSpecs = <<>> THEN [res |-> "nil", files |-> files, keys |-> sortedKeys]
       ELSE IF writeFails THEN [res |-> "err", files |-> files, keys |-> sortedKeys]
       ELSE [res |-> "nil", files |-> MapPut(files, SpecName(class), spec), keys |-> sortedKeys]

\* the orders in which a range loop may visit the classes of the class index
ClassOrders ==
    {q \in [1..Cardinality(DOMAIN deviceMap) -> DOMAIN deviceMap] : Distinct(q)}
\* append(keys, deviceMap[id]...) over the classes of a category, in a given order
RECURSIVE CategoryKeys_All(_, _)
CategoryKeys_All(order, sw) ==
    IF order = <<>> THEN <<>>
    ELSE deviceMap[Head(order)] \o CategoryKeys_All(Tail(order), sw)

RECURSIVE CategoryKeys(_, _)
CategoryKeys(order, sw) ==
    IF order = <<>> THEN <<>>
    ELSE (IF isNVSwitchDeviceID(Head(order)) = sw THEN deviceMap[Head(order)] ELSE <<>>)
         \o CategoryKeys(Tail(order), sw)

Phase(sw) == IF sw THEN "switch" ELSE "gpu"
Alias(sw) == IF sw THEN NVSwitchAlias ELSE PGPUAlias

CdiAfter_Continue(sw, res, remaining) ==
    IF remaining # {} THEN cdiPc' = Phase(sw) /\ cdiRet' = cdiRet /\ cdiTodo' = remaining
    ELSE IF ~sw THEN cdiPc' = "switch" /\ cdiRet' = cdiRet /\ cdiTodo' = DOMAIN deviceMap
    ELSE cdiPc' = "done" /\ cdiRet' = "nil" /\ cdiTodo' = {}

\* what follows a call of generateCDISpecForClass, or the end of a loop: an
\* error returns it; after the GPU part comes the NVSwitch part, then return nil
CdiAfter(sw, res, remaining) ==
    IF res = "err" THEN cdiPc' = "done" /\ cdiRet' = "err" /\ cdiTodo' = {}
    ELSE IF remaining # {} THEN cdiPc' = Phase(sw) /\ cdiRet' = cdiRet /\ cdiTodo' = remaining
    ELSE IF ~sw THEN cdiPc' = "switch" /\ cdiRet' = cdiRet /\ cdiTodo' = DOMAIN deviceMap
    ELSE cdiPc' = "done" /\ cdiRet' = "nil" /\ cdiTodo' = {}

\* the head of GenerateCDISpec: nothing discovered, or os.MkdirAll(cdiRoot)
CdiBegin ==
    /\ cdiPc = "idle" /\ passes > 0 /\ cpc = "idle"
    /\ IF iommuMap = <<>>
       THEN cdiPc' = "done" /\ cdiRet' = "nil" /\ cdiTodo' = {}
       ELSE \/ cdiPc' = "gpu" /\ cdiRet' = cdiRet /\ cdiTodo' = DOMAIN deviceMap
            \/ cdiPc' = "done" /\ cdiRet' = "err" /\ cdiTodo' = {}
    /\ UNCHANGED <<iommuMap, iommuDev, allocCalled, allocReqs, allocResp, allocErr, discVars,
                   mgrVars, cdiFiles, cdiLog, fnVars, dpiVars, envVars, thrVars>>

\* alias set: every key of the category in one descriptor under the alias
CdiAlias(sw) ==
    /\ cdiPc = Phase(sw) /\ Alias(sw) # ""
    /\ \E order \in ClassOrders, writeFails \in BOOLEAN :
          LET keys == CategoryKeys(order, sw)
              r == GenerateForClass(cdiFiles, Alias(sw), keys, writeFails)
          IN IF keys = <<>>
             THEN /\ ~writeFails
                  /\ CdiAfter(sw, "nil", {})
                  /\ UNCHANGED <<cdiFiles, cdiLog>>
             ELSE /\ cdiFiles' = r.files
                  /\ cdiLog' = Append(cdiLog, [class |-> Alias(sw), keys |-> r.keys,
                                               res |-> r.res])
                  /\ CdiAfter(sw, r.res, {})
    /\ UNCHANGED <<iommuMap, iommuDev, allocCalled, allocReqs, allocResp, allocErr, discVars,
                   mgrVars, fnVars, dpiVars, envVars, thrVars>>

\* alias not set: one iteration of the range loop, a descriptor for one class
CdiType(sw) ==
    /\ cdiPc = Phase(sw) /\ Alias(sw) = ""
    /\ \E deviceID \in cdiTodo, writeFails \in BOOLEAN :
       \E found \in getDeviceNameForID(deviceID) :
          LET className == IF found = "" THEN deviceID ELSE found
              r == GenerateForClass(cdiFiles, className, deviceMap[deviceID], writeFails)
          IN IF isNVSwitchDeviceID(deviceID) # sw
             THEN /\ ~writeFails
                  /\ CdiAfter(sw, "nil", cdiTodo \ {deviceID})
                  /\ UNCHANGED <<cdiFiles, cdiLog>>
             ELSE /\ cdiFiles' = r.files
                  /\ cdiLog' = Append(cdiLog, [class |-> className, keys |-> r.keys,
                                               res |-> r.res])
                  /\ CdiAfter(sw, r.res, cdiTodo \ {deviceID})
    /\ UNCHANGED <<iommuMap, iommuDev, allocCalled, allocReqs, allocResp, allocErr, discVars,
                   mgrVars, fnVars, dpiVars, envVars, thrVars>>

\* the capability path appears, disappears or becomes unreadable
CapabilityChange ==
    /\ passes > 0 /\ cdiPc # "done"
    /\ \E st \in {"exists", "absent", "error"} : st # iommuDev /\ iommuDev' = st
    /\ UNCHANGED <<iommuMap, allocCalled, allocReqs, allocResp, allocErr, discVars, mgrVars,
                   cdiVars, fnVars, dpiVars, envVars, thrVars>>

CdiInitVars ==
    /\ iommuMap = <<>> /\ deviceMap = <<>> /\ nvSwitchDeviceIDs = <<>>
    /\ iommuDev \in {"exists", "absent", "error"}
    /\ pciDevs \in CdiLists
    /\ pciErr = FALSE
    /\ passes = 0 /\ passRes = "none"
    /\ allocCalled = FALSE /\ allocReqs = <<>> /\ allocResp = NilResponse /\ allocErr = FALSE
    /\ CdiIdle

CdiInit == CdiInitVars /\ MgrInitVars /\ FnIdle /\ PluginIdle
CdiNext ==
    \/ InitiatePass \/ CapabilityChange \/ CdiBegin
    \/ CdiAlias(FALSE) \/ CdiAlias(TRUE) \/ CdiType(FALSE) \/ CdiType(TRUE)
CdiSpec == CdiInit /\ [][CdiNext]_vars

----------------------------------------------------------------------------

(* Discovery and Allocate in one run (ModeSpec)                             *)

AllocateUnit_Consume ==
    /\ passes > 0 /\ passRes = "ok"
    /\ ~allocCalled
    /\ \E k \in DOMAIN iommuMap :
          LET r == AllocateResult(<<<<k>>>>, iommuMap, iommuDev) IN
          /\ allocCalled' = TRUE
          /\ allocReqs' = <<<<k>>>>
          /\ allocResp' = r.resp
          /\ allocErr' = r.err
          /\ iommuMap' = [x \in DOMAIN iommuMap \ {k} |-> iommuMap[x]]
    /\ UNCHANGED <<iommuDev, discVars, mgrVars, cdiVars, fnVars, dpiVars, envVars, thrVars>>

\* the kubelet asks for one discovered unit: Allocate on an instance created
\* after the discovery pass, with the capability path as it is at the call
AllocateUnit ==
    /\ passes > 0 /\ passRes = "ok"
    /\ ~allocCalled
    /\ \E k \in DOMAIN iommuMap :
          LET r == AllocateResult(<<<<k>>>>, iommuMap, iommuDev) IN
          /\ allocCalled' = TRUE
          /\ allocReqs' = <<<<k>>>>
          /\ allocResp' = r.resp
          /\ allocErr' = r.err
    /\ UNCHANGED <<iommuMap, iommuDev, discVars, mgrVars, cdiVars, fnVars, dpiVars, envVars,
                   thrVars>>

ModeInit == CdiInit
ModeNext == InitiatePass \/ CapabilityChange \/ AllocateUnit
ModeSpec == ModeInit /\ [][ModeNext]_vars

----------------------------------------------------------------------------

(* Allocate on the instances of the controller (OwnSpec)                    *)

\* the kubelet calls Allocate on started instance p for one discovered unit:
\* the method reads the package's unit index, and no field of the instance
AllocateOn(p) ==
    /\ p \in Tracked /\ ~plugins[p].stopped
    /\ ~allocCalled
    /\ \E k \in DOMAIN iommuMap :
          LET r == AllocateResult(<<<<k>>>>, iommuMap, iommuDev) IN
          /\ allocCalled' = TRUE
          /\ allocReqs' = <<<<k>>>>
          /\ allocResp' = r.resp
          /\ allocErr' = r.err
    /\ UNCHANGED <<iommuMap, iommuDev, discVars, mgrVars, cdiVars, fnVars, dpiVars, envVars,
                   thrVars>>

OwnInit == InitiateInit
OwnNext ==
    \/ InitiatePass \/ CreateBegin \/ CreateIteration
    \/ (\E p \in 1..Len(plugins) : AllocateOn(p))
OwnSpec == OwnInit /\ [][OwnNext]_vars

----------------------------------------------------------------------------

(* InitiateDevicePlugin with one instance at work (FrameSpec)               *)

\* a host with a GPU and an NVSwitch in two groups, both bound to vfio-pci and
\* without a handle; the GPUs have an alias, the NVSwitches have none
FrameLists ==
    {[i \in 1..2 |-> PciDevice(i, m[i], "vfio-pci", i, FALSE)] :
        m \in {q \in [1..2 -> PciModels] : q[1].Device = 7040 /\ q[2].Device = 8867}}

\* createDevicePlugins comes after GenerateCDISpec: the instance is started
\* once the generation has returned
FrameStart == cdiPc = "done" /\ CtlStart
\* the kubelet calls Allocate on the endpoint of the instance
FrameAllocate == Serving /\ AllocateUnit

FrameInit ==
    /\ PluginInitVars /\ devInSockDir = FALSE /\ sockFile = 0
    /\ iommuMap = <<>> /\ deviceMap = <<>> /\ nvSwitchDeviceIDs = <<>>
    /\ iommuDev = "absent"
    /\ pciDevs \in FrameLists /\ pciErr = FALSE
    /\ passes = 0 /\ passRes = "none"
    /\ allocCalled = FALSE /\ allocReqs = <<>> /\ allocResp = NilResponse /\ allocErr = FALSE
    /\ PGPUAlias = "pgpu" /\ NVSwitchAlias = ""
    /\ plugins = <<>> /\ devicePlugins = <<>> /\ iommufdSupported = FALSE
    /\ todo = {} /\ cpc = "idle" /\ sockFiles = <<>> /\ removed = {}
    /\ CdiIdle /\ FnIdle

FrameNext ==
    \/ InitiatePass \/ CdiBegin \/ CdiAlias(FALSE) \/ CdiType(TRUE)
    \/ FrameStart \/ CtlStop \/ CtlReturn \/ FrameAllocate
    \/ (\E t \in Threads : StartStep(t) \/ StopStep(t))
    \/ (\E w \in Watchers : HcSetupStep(w) \/ HcSocketRemoved(w) \/ RestartCheck(w))
    \/ (\E s \in Sessions :
            ListAndWatchOpen(s) \/ ListAndWatchStopped(s) \/ ListAndWatchTerminated(s))
    \/ RemoveSocketFile
    \/ CloseStop

FrameSpec == FrameInit /\ [][FrameNext]_vars

----------------------------------------------------------------------------

(* Stop against the instance's own watcher (OwnStopSpec)                    *)

\* OwnStopSpec: the lifecycle of the instance with a kubelet that never removes
\* the socket file: every removal the watcher sees is the one server.Stop() makes
OwnStopNext ==
    \/ StartCall \/ StopCall
    \/ (\E t \in Threads : StartStep(t) \/ StopStep(t))
    \/ (\E w \in Watchers : HcSetupStep(w) \/ HcSocketRemoved(w) \/ RestartCheck(w))
    \/ (\E s \in Sessions :
            ListAndWatchOpen(s) \/ ListAndWatchStopped(s) \/ ListAndWatchTerminated(s))
    \/ CloseStop

OwnStopSpec == Init /\ [][OwnStopNext]_vars

----------------------------------------------------------------------------

(* Claims about Allocate (AllocSpec)                                        *)

Called == allocCalled
ReqPositions == {<<c, j>> : c \in 1..Len(allocReqs), j \in 1..MaxIDs}
Requests == {p \in ReqPositions : p[2] <= Len(allocReqs[p[1]])}
KeyAt(p) == allocReqs[p[1]][p[2]]

\* C1: Allocate is all-or-nothing: when any unit key of any container request
\* of the batch is absent from the unit index, the call returns an error and a
\* nil response, whatever the other keys and container requests are.
C1_AllocateAllOrNothing ==
    (Called /\ \E p \in Requests : KeyAt(p) \notin DOMAIN iommuMap)
        => (allocErr /\ allocResp.nil)

\* a batch whose first container request is valid and whose second names an
\* unknown key has been refused as a whole
C1_Witness ==
    /\ Called /\ iommuDev = "absent"
    /\ Len(allocReqs) = 2
    /\ allocReqs[1] = <<"1">> /\ "1" \in DOMAIN iommuMap
    /\ allocReqs[2] = <<UnknownKey>>
    /\ allocErr /\ allocResp.nil

\* number of devices in the units requested before position j of ids
RECURSIVE DevsBefore(_, _)
DevsBefore(ids, j) ==
    IF j <= 1 THEN 0 ELSE DevsBefore(ids, j - 1) + Len(iommuMap[ids[j - 1]])

\* C5: a successful Allocate returns one container response per container
\* request, in order; in fd mode its nodes are exactly one per device of each
\* requested unit, at <vfio-root>/devices/<fdName>; in legacy mode exactly two
\* per requested key, <vfio-root>/vfio then <vfio-root>/<key>; every node has
\* the same host and container path and permission "mrw".
C5_AllocateNodes ==
    (Called /\ ~allocErr) =>
        /\ ~allocResp.nil
        /\ Len(allocResp.ContainerResponses) = Len(allocReqs)
        /\ \A c \in 1..Len(allocReqs) :
            LET ids == allocReqs[c]
                nodes == allocResp.ContainerResponses[c].Devices
            IN
            /\ \A n \in 1..Len(nodes) :
                /\ nodes[n].ContainerPath = nodes[n].HostPath
                /\ nodes[n].Permissions = "mrw"
            /\ IF iommuDev = "exists"
               THEN /\ Len(nodes) = DevsBefore(ids, Len(ids) + 1)
                    /\ \A j \in 1..Len(ids) : \A i \in 1..Len(iommuMap[ids[j]]) :
                         nodes[DevsBefore(ids, j) + i].HostPath
                           = <<"dev", "vfio", "devices", iommuMap[ids[j]][i].IommuFD>>
               ELSE /\ Len(nodes) = 2 * Len(ids)
                    /\ \A j \in 1..Len(ids) :
                         /\ nodes[2 * j - 1].HostPath = <<"dev", "vfio", "vfio">>
                         /\ nodes[2 * j].HostPath = <<"dev", "vfio", ids[j]>>

\* a legacy-mode batch of two container requests, one of them for a unit of two
\* devices, has succeeded
C5_Witness ==
    /\ Called /\ ~allocErr /\ iommuDev = "absent"
    /\ Len(allocReqs) = 2 /\ allocReqs[1] = <<"2">> /\ allocReqs[2] = <<"1">>
    /\ Len(iommuMap["2"]) = 2
    /\ Len(allocResp.ContainerResponses[1].Devices) = 2

\* C6: in fd mode, when any device of any requested unit has no fd handle, the
\* whole call fails with an error and a nil response.
C6_FdHandleRequired ==
    (/\ Called /\ iommuDev = "exists"
     /\ \E p \in Requests :
            /\ KeyAt(p) \in DOMAIN iommuMap
            /\ \E i \in 1..Len(iommuMap[KeyAt(p)]) : iommuMap[KeyAt(p)][i].IommuFD = "")
        => (allocErr /\ allocResp.nil)

\* an fd-mode batch whose first container request is allocatable and whose
\* second names a unit holding one device with and one without a handle
C6_Witness ==
    /\ Called /\ iommuDev = "exists"
    /\ Len(allocReqs) = 2 /\ allocReqs[1] = <<"1">> /\ allocReqs[2] = <<"2">>
    /\ "1" \in DOMAIN iommuMap /\ "2" \in DOMAIN iommuMap
    /\ \A i \in 1..Len(iommuMap["1"]) : iommuMap["1"][i].IommuFD # ""
    /\ Len(iommuMap["2"]) = 2
    /\ iommuMap["2"][1].IommuFD # "" /\ iommuMap["2"][2].IommuFD = ""
    /\ allocErr /\ allocResp.nil

----------------------------------------------------------------------------
(* Claims about Start (Spec)                                                *)

\* the step in which thread t itself leaves position p (a panic of another
\* goroutine ends the process and every goroutine with it)
Leaves(t, p) == pc[t] = p /\ pc'[t] \notin {p, "panic"}

\* C7: Start on an instance that already has an endpoint returns an error at
\* once and has no side effect: the endpoint, the stop channel, the socket
\* file, the registration and the running health watcher stay as they were.
C7_StartTwiceNoEffect ==
    [][\A t \in Threads :
        (Leaves(t, "start_check") /\ server # 0) =>
            /\ ret'[t] = "start_already"
            /\ pc'[t] = IF t = Main THEN "idle" ELSE "hc_done"
            /\ UNCHANGED <<dpiVars, envVars, lis, probe, ses>>
            /\ \A w \in Watchers \ {t} : pc'[w] = pc[w] /\ wat'[w] = wat[w]
      ]_vars

\* a second Start has been refused while the endpoint of the first serves and
\* its health watcher runs
C7_Witness ==
    /\ ret[Main] = "start_already" /\ pc[Main] = "idle"
    /\ Serving /\ sockFile = server /\ regs = 1 /\ stop = "global"
    /\ \E w \in Watchers : pc[w] = "hc_loop" /\ wat[w].dir

\* C8: when the registration handshake fails during Start, Start returns that
\* error, the bound endpoint is not torn down and its socket file is not
\* removed, and no health watcher is started.
C8_RegisterFailureKeepsEndpoint ==
    [][\A t \in Threads :
        (Leaves(t, "start_register") /\ pc'[t] # "start_gohc") =>
            /\ ret'[t] = "start_register_err"
            /\ UNCHANGED <<dpiVars, envVars>>
            /\ \A w \in Watchers \ {t} : pc'[w] = pc[w]
      ]_vars

\* Start has returned the registration error: the endpoint it bound serves at
\* the socket path and no health watcher exists
C8_Witness ==
    /\ ret[Main] = "start_register_err" /\ pc[Main] = "idle"
    /\ Serving /\ server = lis[Main] /\ sockFile = server /\ regs = 0
    /\ \A w \in Watchers : pc[w] = "unborn"

\* C9 (as stated): when the setup of a health watcher fails, the Start that
\* launched it did not report success.
C9_SetupFailureFailsStart ==
    \A w \in Watchers : ret[w] = "hc_setup_err" => ~wat[w].startOk

\* C10 (as stated): when the readiness probe of a Start fails, that Start does
\* not go on to register, does not start the health watcher and does not
\* return success.
C10_ProbeFailureStopsStart ==
    \A t \in Threads :
        probe[t] = "failed" =>
            /\ pc[t] # "start_gohc"
            /\ ret[t] \notin {"start_ok", "hc_restarted"}

----------------------------------------------------------------------------
(* Claims about the socket-removal restart (FairSpec)                       *)

\* Start failed in the environment: the socket path could not be cleared or
\* bound, or the kubelet refused the registration
EnvFailed(w) == ret[w] \in {"start_cleanup_err", "start_listen_err", "start_register_err"}

\* C3 (as stated): when the health watcher of a Serving instance observes the
\* removal of the socket file, one restart is carried through: it ends with a
\* new endpoint bound and registered (unless the bind or the registration is
\* refused by the environment, or the caller issues a Start or Stop meanwhile).
C3_SocketRemovalRestarts ==
    \A w \in Watchers :
        (pc[w] = "restart_check" /\ Serving /\ pc[Main] = "idle")
            ~> (ret[w] = "hc_restarted" \/ EnvFailed(w) \/ pc[Main] # "idle")

----------------------------------------------------------------------------
(* Claims about the health path (HealthSpec, FairHealthSpec)                *)

IndexOf(id) == CHOOSE i \in 1..Len(InstanceDevs) : InstanceDevs[i] = id
Emitted(s) == ses[s].nSent >= 1 /\ ses[s].pc \in {"select", "mark", "emit"}

\* the first emission of a session is the full list, and each signal consumed
\* is answered by exactly one further full list
EmitsFullListPerSignal(s) ==
    /\ Len(ses[s].last) = Len(InstanceDevs)
    /\ \A i \in 1..Len(InstanceDevs) : ses[s].last[i].ID = InstanceDevs[i]
    /\ (ses[s].pc = "select" /\ ses[s].nSent = 1 /\ ~ses[s].dirty) => ses[s].last = devs
    /\ ses[s].pc = "select" => ses[s].nSent = ses[s].nGot + 1
    /\ ses[s].pc \in {"mark", "emit"} => ses[s].nSent = ses[s].nGot

\* the last re-emission differs from the emission before it only in the health
\* of the signalled device, which is the health signalled
DiffersOnlyInSignalled(s) ==
    \A i \in 1..Len(InstanceDevs) :
        /\ ses[s].prev[i].ID = ses[s].last[i].ID
        /\ ses[s].last[i].Health =
              IF ses[s].last[i].ID = ses[s].lastSig.id
              THEN ses[s].lastSig.kind
              ELSE ses[s].prev[i].Health

Reported(id, h) ==
    \E s \in Sessions : Emitted(s) /\ ses[s].last[IndexOf(id)].Health = h

\* C4 (as stated): for a Serving instance with a running health watcher and an
\* open session, a tracked device file that is removed or renamed is eventually
\* reported Unhealthy, and when the file is created again it is eventually
\* reported Healthy again (as long as the watcher and a session stay).
C4_HealthFollowsFile ==
    \A id \in DevIDs :
        /\ (InScope /\ scoped[id] = "removed" /\ ~devFile[id])
              ~> (Reported(id, Unhealthy) \/ ~InScope \/ devFile[id])
        /\ (InScope /\ scoped[id] = "created" /\ devFile[id])
              ~> (Reported(id, Healthy) \/ ~InScope \/ ~devFile[id])

----------------------------------------------------------------------------
(* Claims about Stop (Spec, FairSpec)                                       *)

\* C11 (as stated): after an explicit Stop of a Serving instance has sent its
\* termination signal, every session that is open at that moment eventually
\* returns (or the process ends), however many sessions are open.
C11_StopEndsEverySession ==
    \A s \in Sessions :
        (pc[Main] = "stop_server" /\ ses[s].pc = "select")
            ~> (ses[s].pc \in {"done", "panic"})

\* Stop has returned successfully to the caller, who has called nothing since
StopReturned == pc[Main] = "idle" /\ ret[Main] = "stop_ok"

\* C12 (as stated): when Stop has returned on a Serving instance, the instance
\* has no endpoint and its socket file is gone, so that a following Start is
\* not rejected as already started.
C12_RestartableAfterStop ==
    StopReturned => (server = 0 /\ sockFile = 0)

----------------------------------------------------------------------------
(* Claims about the writers of the device list (HealthSpec)                 *)

\* sessions that have received a health signal and have not finished the
\* writes of the health tags for it
Writers == {s \in Sessions : ses[s].pc = "mark"}

\* C14 (as stated): the device list is never written by two threads at the
\* same time: the writes done for one signal never overlap those done for
\* another, also with more than one session open.
C14_SingleWriter == Cardinality(Writers) <= 1

----------------------------------------------------------------------------
(* Claims about the controller (FairCtlSpec)                                *)

CtlReturned == pc[Main] = "ctl_returned"

\* C15 (as stated): the controller does not return before the shutdown signal,
\* and once the signal is raised it eventually returns (unless the process has
\* ended), having called Stop on the instance it tracks.
C15_ControllerStopsOnShutdown ==
    /\ [](CtlReturned => stopClosed /\ ret[Main] \in StartFailures \cup StopResults)
    /\ stopClosed ~> (CtlReturned \/ Crashed)

----------------------------------------------------------------------------
(* Claims about discovery (DiscSpec)                                        *)

\* a device of the enumeration that is GPU-class or NVSwitch-class and bound to
\* the VFIO passthrough driver, and the unit keys and device ID it may be filed under
Passthrough(dev) == dev.Class \in {"3d", "vga", "nvswitch"} /\ dev.Driver = "vfio-pci"
PassthroughDevs == {pciDevs[i] : i \in {j \in 1..Len(pciDevs) : Passthrough(pciDevs[j])}}
KeysOfDev(dev) == {ToString(dev.IommuGroup)} \cup ({dev.IommuFD} \ {""})
Recorded == UNION {{iommuMap[k][i] : i \in 1..Len(iommuMap[k])} : k \in DOMAIN iommuMap}
ClassKeys(id) == {deviceMap[id][i] : i \in 1..Len(deviceMap[id])}

\* C18: after a discovery pass every device recorded in the unit index, every
\* class and unit key of the class index and every entry of the NVSwitch set
\* comes from an enumerated device that is GPU-class or NVSwitch-class and bound
\* to vfio-pci; a device of another class or with another driver is in none of them.
C18_OnlyPassthroughDevices ==
    passRes # "none" =>
        /\ \A r \in Recorded : \E d \in PassthroughDevs : d.Address = r.Address
        /\ \A id \in DOMAIN deviceMap :
              /\ \E d \in PassthroughDevs : Hex4(d.Device) = id
              /\ \A k \in ClassKeys(id) : \E d \in PassthroughDevs : k \in KeysOfDev(d)
        /\ \A id \in DOMAIN nvSwitchDeviceIDs :
              \E d \in PassthroughDevs : d.Class = "nvswitch" /\ Hex4(d.Device) = id

\* a successful pass over a GPU bound to another driver and a passthrough device
C18_Witness ==
    /\ passRes = "ok"
    /\ \E i \in 1..Len(pciDevs) : pciDevs[i].Class = "3d" /\ pciDevs[i].Driver = "nvidia"
    /\ iommuMap # <<>>

\* C19 (as stated): a discovery pass that fails in the capability check or in
\* the enumeration provider leaves the unit index, the class index and the
\* NVSwitch set as they were before the pass.
C19_FailedPassKeepsState ==
    [][(passes' = passes + 1 /\ passRes' \in {"cap_err", "enum_err"}) =>
          /\ iommuMap' = iommuMap
          /\ deviceMap' = deviceMap
          /\ nvSwitchDeviceIDs' = nvSwitchDeviceIDs]_vars

\* C20: after any pass no unit key occurs twice in the class index, neither
\* twice in the list of one class nor in the lists of two classes.
C20_UnitKeyOnce ==
    passRes # "none" =>
        /\ \A id \in DOMAIN deviceMap :
              \A i, j \in 1..Len(deviceMap[id]) : i # j => deviceMap[id][i] # deviceMap[id][j]
        /\ \A id1, id2 \in DOMAIN deviceMap :
              id1 # id2 => ClassKeys(id1) \cap ClassKeys(id2) = {}

\* a successful pass that recorded two devices of different device IDs in one unit
C20_Witness ==
    /\ passRes = "ok"
    /\ \E k \in DOMAIN iommuMap :
          /\ Len(iommuMap[k]) = 2
          /\ iommuMap[k][1].DeviceID # iommuMap[k][2].DeviceID
    /\ \E id \in DOMAIN deviceMap : deviceMap[id] # <<>>

----------------------------------------------------------------------------
(* Claims about the controller over all classes (InitiateSpec)              *)

Instances == 1..Len(plugins)
ClassesOf(P) == {plugins[p].class : p \in P}

\* C13 (as stated): no two instances constructed in one run have the same socket
\* path, and no Start or Stop of an instance removes the socket file of another.
C13_SocketPathOwned ==
    /\ \A p, q \in Instances : p # q => plugins[p].dp.socketPath # plugins[q].dp.socketPath
    /\ removed = {}

\* C16: whatever the outcome of each Start, the loop visits every class of the
\* class index; the tracked instances are exactly those whose Start succeeded,
\* in the order of their construction, and only tracked instances are stopped.
C16_FailedStartDropped ==
    /\ Tracked = {p \in Instances : plugins[p].res = "start_ok"}
    /\ \A j, k \in 1..Len(devicePlugins) : j < k => devicePlugins[j] < devicePlugins[k]
    /\ \A p \in Instances : plugins[p].stopped => p \in Tracked
    /\ cpc = "loop" => todo = DOMAIN deviceMap \ ClassesOf(Instances)
    /\ cpc = "stopping" => \A id \in DOMAIN deviceMap : \E p \in Instances : plugins[p].class = id

\* the controller has returned after a run in which the first Start failed and
\* the second succeeded and was stopped
C16_Witness ==
    /\ cpc = "returned"
    /\ Len(plugins) = 2
    /\ plugins[1].res # "start_ok" /\ ~plugins[1].stopped
    /\ plugins[2].res = "start_ok" /\ plugins[2].stopped
    /\ devicePlugins = <<2>>

\* C17: every class of the class index gets exactly one instance, and the
\* device list of an instance is its class's unit keys in index order, all Healthy.
C17_OneInstancePerClass ==
    /\ \A p, q \in Instances : p # q => plugins[p].class # plugins[q].class
    /\ ClassesOf(Instances) \subseteq DOMAIN deviceMap
    /\ cpc = "stopping" => ClassesOf(Instances) = DOMAIN deviceMap
    /\ \A p \in Instances :
          LET keys == deviceMap[plugins[p].class] IN
          /\ Len(plugins[p].dp.devs) = Len(keys)
          /\ \A i \in 1..Len(keys) :
                plugins[p].dp.devs[i] = [ID |-> keys[i], Health |-> "Healthy"]

\* two VFIO-bound GPUs 1b80 and 1b81 in groups 1 and 2, no alias, no fd support:
\* two instances, each with one device
C17_Witness ==
    /\ PGPUAlias = "" /\ NVSwitchAlias = "" /\ iommuDev = "absent"
    /\ deviceMap = [id \in {"1b80", "1b81"} |-> IF id = "1b80" THEN <<"1">> ELSE <<"2">>]
    /\ cpc = "loop" /\ todo = {}
    /\ Len(plugins) = 2
    /\ \A p \in Instances : Len(plugins[p].dp.devs) = 1
    /\ plugins[1].class = "1b81"
    /\ plugins[1].dp.socketPath # plugins[2].dp.socketPath

----------------------------------------------------------------------------
(* Claims about the unit index (DiscSpec)                                   *)

\* the positions of the kept devices in the enumeration, and the places
\* <<key, position>> of the unit index that hold the device with an address
KeptPositions == {i \in 1..Len(pciDevs) : Passthrough(pciDevs[i])}
PlacesOf(im, addr) ==
    {<<k, j>> \in UNION {{<<k2, j2>> : j2 \in 1..Len(im[k2])} : k2 \in DOMAIN im} :
        im[k][j].Address = addr}
ExpectedKey(dev, fd) ==
    IF fd /\ dev.IommuFD # "" THEN dev.IommuFD ELSE ToString(dev.IommuGroup)

\* C21: a successful pass records every kept device exactly once, in the unit
\* keyed by its fd-handle name when fd mode is active and the handle is not
\* empty and by its decimal group number otherwise, and devices that share a
\* unit are listed in enumeration order.
C21_KeptDeviceInItsUnit ==
    [][(passes' = passes + 1 /\ passRes' = "ok") =>
          LET fd == (iommuDev = "exists")
              place(i) == PlacesOf(iommuMap', pciDevs[i].Address)
          IN /\ \A i \in KeptPositions :
                   /\ Cardinality(place(i)) = 1
                   /\ \A pl \in place(i) : pl[1] = ExpectedKey(pciDevs[i], fd)
             /\ \A i1, i2 \in KeptPositions :
                   i1 < i2 =>
                     \A p1 \in place(i1), p2 \in place(i2) : p1[1] = p2[1] => p1[2] < p2[2]]_vars

\* a pass in fd mode has filed one device under its handle and a device
\* without a handle under its group number
C21_Witness ==
    /\ passes = 1 /\ passRes = "ok" /\ iommuDev = "exists"
    /\ \E k \in DOMAIN iommuMap : iommuMap[k][1].IommuFD = k
    /\ \E k \in DOMAIN iommuMap :
          iommuMap[k][1].IommuFD = "" /\ k = ToString(iommuMap[k][1].IommuGroup)

----------------------------------------------------------------------------
(* Claims about formatDeviceName (FormatSpec)                               *)

FormattedChars ==
    {"A", "B", "C", "D", "E", "F", "G", "H", "I", "J", "K", "L", "M", "N", "O", "P", "Q", "R",
     "S", "T", "U", "V", "W", "X", "Y", "Z", "0", "1", "2", "3", "4", "5", "6", "7", "8", "9",
     "_", "-"}

\* C28: formatDeviceName has a result for every name; the result consists of
\* characters in [A-Z0-9_-] only, it is empty for the empty name, and applying
\* formatDeviceName to a result gives that result again.
C28_FormatIdempotent ==
    /\ [](fnCalls > 0 =>
            /\ \A i \in 1..Len(fnOut) : fnOut[i] \in FormattedChars
            /\ fnIn = <<>> => fnOut = <<>>)
    /\ [][(fnCalls > 0 /\ fnCalls' = fnCalls + 1) => fnOut' = fnOut]_vars
    /\ [](fnCalls < MaxFormatCalls => ENABLED FormatCall)

\* a name with a run of whitespace and a lower-case letter has been formatted twice
C28_Witness ==
    /\ fnCalls = 2
    /\ fnIn = <<" ", "\t", "a">>
    /\ fnOut = <<"_", "A">>

----------------------------------------------------------------------------
(* Claims about the order of the unit keys (SortSpec)                       *)

\* the numeric suffix of each key of the lists
SuffixNumber(k) ==
    IF k \in {<<"8">>, <<"v", "f", "i", "o", "8">>} THEN 8
    ELSE IF k = <<"v", "f", "i", "o", "9">> THEN 9
    ELSE 10

\* C23 (as stated): the keys are processed in an order that is a permutation of
\* the list given and strictly increasing by numeric suffix, so that it is the
\* same for every order of the list.
C23_KeysByNumericSuffix ==
    fnCalls = 1 =>
        /\ Len(fnOut) = Len(fnIn) /\ SeqRange(fnOut) = SeqRange(fnIn)
        /\ \A i, j \in 1..Len(fnOut) : i < j => SuffixNumber(fnOut[i]) < SuffixNumber(fnOut[j])

----------------------------------------------------------------------------
(* Claims about CDI generation (CdiSpec)                                    *)

Last(q) == q[Len(q)]
EntryNames(d) == {d.Devices[i].Name : i \in 1..Len(d.Devices)}
KindOf(class) == "nvidia.com/" \o class
\* a call of generateCDISpecForClass has returned without error
Generated == Len(cdiLog') = Len(cdiLog) + 1 /\ Last(cdiLog').res = "nil"
ExpectedNodes(dev, unitKey, fd) ==
    IF fd /\ dev.IommuFD # ""
    THEN <<vfioDevicePath \o <<"devices", dev.IommuFD>>>>
    ELSE <<vfioDevicePath \o <<"vfio">>, vfioDevicePath \o <<unitKey>>>>

\* C24: in a descriptor just generated, the entries of a unit are one per device
\* of the unit, in order, and the nodes of an entry are the single node
\* <vfio-root>/devices/<fdName> when fd mode is active and the device has a
\* handle, and otherwise the two nodes <vfio-root>/vfio and <vfio-root>/<unitKey>.
C24_CdiDeviceNodes ==
    [][Generated =>
          \A n \in DOMAIN cdiFiles' :
              cdiFiles'[n].Kind = KindOf(Last(cdiLog').class) =>
                  \A k \in EntryNames(cdiFiles'[n]) :
                      LET OfUnit(e) == e.Name = k
                          entries == SelectSeq(cdiFiles'[n].Devices, OfUnit)
                      IN /\ Len(entries) = Len(iommuMap[k])
                         /\ \A i \in 1..Len(entries) :
                               entries[i].DeviceNodes =
                                   ExpectedNodes(iommuMap[k][i], k, iommuDev = "exists")]_vars

\* a descriptor with an entry of one node and an entry of two nodes
C24_Witness ==
    \E n \in DOMAIN cdiFiles :
        /\ \E i \in 1..Len(cdiFiles[n].Devices) : Len(cdiFiles[n].Devices[i].DeviceNodes) = 1
        /\ \E i \in 1..Len(cdiFiles[n].Devices) : Len(cdiFiles[n].Devices[i].DeviceNodes) = 2

\* the classes of a category in the class index, and their unit keys
ClassesOfCategory(sw) ==
    {id \in DOMAIN deviceMap : (id \in DOMAIN nvSwitchDeviceIDs) = sw}
KeysOfCategory(sw) == UNION {ClassKeys(id) : id \in ClassesOfCategory(sw)}
AliasOf(sw) == IF sw THEN NVSwitchAlias ELSE PGPUAlias
GenerationSucceeded == cdiPc = "done" /\ cdiRet = "nil"

PerTypeClasses == {id \in DOMAIN deviceMap : AliasOf(id \in DOMAIN nvSwitchDeviceIDs) = ""}
PerTypeDescriptors ==
    {n \in DOMAIN cdiFiles :
        cdiFiles[n].Kind # KindOf(PGPUAlias) /\ cdiFiles[n].Kind # KindOf(NVSwitchAlias)}
ClassNames(id) ==
    {IF found = "" THEN id ELSE found : found \in getDeviceNameForID(id)}

\* C26: after a successful generation, every class of a category without alias
\* has a descriptor of kind <vendor>/<formatted name>, or <vendor>/<device ID>
\* when the formatted name is empty, that holds exactly the units of the class,
\* and there are as many such descriptors as such classes.
C26_DescriptorPerClass ==
    GenerationSucceeded =>
        /\ \A id \in PerTypeClasses :
              \E n \in DOMAIN cdiFiles :
                  /\ cdiFiles[n].Kind \in {KindOf(c) : c \in ClassNames(id)}
                  /\ EntryNames(cdiFiles[n]) = ClassKeys(id)
        /\ Cardinality(PerTypeDescriptors) = Cardinality(PerTypeClasses)

\* the classes whose call of generateCDISpecForClass returned nil
WrittenClasses(log) == {log[i].class : i \in {j \in 1..Len(log) : log[j].res = "nil"}}

\* C27: GenerateCDISpec stops at the first error: the step in which the
\* generation for a class fails returns the error and leaves the descriptors
\* already written as they are; once GenerateCDISpec has returned nothing more
\* is generated, so the descriptors are those of the classes processed without
\* error and of no other class.
C27_StopOnFirstError ==
    [][/\ (Len(cdiLog') = Len(cdiLog) + 1 /\ Last(cdiLog').res = "err") =>
              (cdiPc' = "done" /\ cdiRet' = "err" /\ cdiFiles' = cdiFiles)
       /\ cdiPc = "done" => (cdiFiles' = cdiFiles /\ cdiLog' = cdiLog /\ cdiRet' = cdiRet)
       /\ DOMAIN cdiFiles' = {SpecName(c) : c \in WrittenClasses(cdiLog')}]_vars

\* the generation for the first of two classes failed: GenerateCDISpec has
\* returned the error and the other class has no descriptor
C27_Witness ==
    /\ cdiPc = "done" /\ cdiRet = "err"
    /\ Len(cdiLog) = 1 /\ cdiLog[1].res = "err"
    /\ Cardinality(PerTypeClasses) = 2
    /\ cdiFiles = <<>>

----------------------------------------------------------------------------
(* Claims about the capability switch (ModeSpec)                            *)

\* discovery keyed the unit by the handle of its device (fd mode), or by its
\* group number (legacy mode, or a device without handle)
KeyedByFd(k) == \E i \in 1..Len(iommuMap[k]) : iommuMap[k][i].IommuFD = k
FdNode(p) == Len(p) = 4 /\ p[3] = "devices"
NodesAgree(k, paths) ==
    IF KeyedByFd(k)
    THEN \A p \in paths : p = vfioDevicePath \o <<"devices", k>>
    ELSE \A p \in paths : p \in {vfioDevicePath \o <<"vfio">>, vfioDevicePath \o <<k>>}
AllocatedPaths ==
    {allocResp.ContainerResponses[1].Devices[i].HostPath :
        i \in 1..Len(allocResp.ContainerResponses[1].Devices)}

\* C22: the three agree on the mode: a successful Allocate of a unit returns
\* only nodes of the mode in which discovery keyed the unit, and every entry of
\* a CDI descriptor has only nodes of the mode in which discovery keyed its
\* unit, also when the capability path changed after the discovery pass.
C22_ModesAgree ==
    /\ (allocCalled /\ ~allocErr) => NodesAgree(allocReqs[1][1], AllocatedPaths)
    /\ \A n \in DOMAIN cdiFiles : \A i \in 1..Len(cdiFiles[n].Devices) :
          LET e == cdiFiles[n].Devices[i] IN
          NodesAgree(e.Name, {e.DeviceNodes[j] : j \in 1..Len(e.DeviceNodes)})

----------------------------------------------------------------------------
(* Claims about the setup of the health watcher (HealthSpec)                *)

\* the device-presence file that watcher w is about to add
NextFile(w) == devs[wat[w].i].ID

\* C29: a device-presence file that does not exist when the watcher is set up
\* is benign: the step of healthCheck that adds the absent file does not make
\* the setup fail.
C29_AbsentFileBenign ==
    [][\A w \in Watchers :
          (pc[w] = "hc_adddev" /\ ~devFile[NextFile(w)]) => ret'[w] # "hc_setup_err"]_vars

----------------------------------------------------------------------------
(* Claims about Stop without an endpoint (Spec)                             *)

\* C30: Stop on an instance without endpoint returns nil at once: the caller
\* gets success (restart goes on to Start), no termination signal is sent, no
\* socket file is removed, no server is stopped and no field of the instance
\* changes.
C30_StopWithoutEndpointNoop ==
    [][\A t \in Threads :
          (Leaves(t, "stop_check") /\ server = 0) =>
              /\ pc'[t] = IF t = Main THEN "idle" ELSE "start_check"
              /\ t = Main => ret'[t] = "stop_noop"
              /\ UNCHANGED <<dpiVars, envVars, lis, ses, wat>>]_vars

\* Stop was called a second time, after a Start and a Stop that succeeded
C30_Witness ==
    /\ pc[Main] = "idle" /\ ret[Main] = "stop_noop"
    /\ server = 0 /\ regs > 0

\* C40: within one descriptor the names of the device entries are pairwise
\* distinct, also when a unit holds more than one device.
C40_EntryNamesDistinct ==
    \A n \in DOMAIN cdiFiles :
        \A i, j \in 1..Len(cdiFiles[n].Devices) :
            i # j => cdiFiles[n].Devices[i].Name # cdiFiles[n].Devices[j].Name

----------------------------------------------------------------------------
(* Further claims about discovery (DiscSpec)                                *)

\* C38: every device recorded in the unit index is reachable through the class
\* index: its device ID is a class and the class lists the device's unit key,
\* also when devices with different device IDs share one unit.
C38_DeviceReachableByClass ==
    \A k \in DOMAIN iommuMap : \A i \in 1..Len(iommuMap[k]) :
        LET deviceID == Hex4(iommuMap[k][i].DeviceID) IN
        /\ deviceID \in DOMAIN deviceMap
        /\ k \in ClassKeys(deviceID)

----------------------------------------------------------------------------
(* Claims about Allocate on an instance (OwnSpec)                           *)

\* the unit keys instance p advertises
OwnKeys(p) == {plugins[p].dp.devs[i].ID : i \in 1..Len(plugins[p].dp.devs)}

\* C39: a call of Allocate on an instance that succeeds names a unit key of
\* the device list of that instance.
C39_OwnUnitsOnly ==
    [][\A p \in Instances :
          (AllocateOn(p) /\ ~allocErr') => allocReqs'[1][1] \in OwnKeys(p)]_vars

----------------------------------------------------------------------------
(* Claims about the indexes as read-only snapshots (FrameSpec)              *)

\* C31: once discovered, the unit index, the class index and the NVSwitch set
\* change only in a discovery pass: every step of Allocate, ListAndWatch, the
\* health watcher, Start, Stop, restart, the controller and the CDI generation
\* leaves all three as they are.
C31_IndexesReadOnly ==
    [][passes' = passes => UNCHANGED <<iommuMap, deviceMap, nvSwitchDeviceIDs>>]_vars

\* the indexes hold both units after a run in which the descriptors were
\* written, a unit was allocated, the instance was restarted by its watcher,
\* a session was ended and the controller stopped the instance
C31_Witness ==
    /\ DOMAIN iommuMap = {"1", "2"} /\ DOMAIN deviceMap = {"1b80", "22a3"}
    /\ DOMAIN nvSwitchDeviceIDs = {"22a3"}
    /\ cdiFiles # <<>> /\ allocCalled /\ ~allocErr
    /\ \E w \in Watchers : ret[w] = "hc_restarted"
    /\ \E s \in Sessions : ses[s].pc = "done"
    /\ CtlReturned /\ ret[Main] = "stop_ok"

----------------------------------------------------------------------------
(* Claims about the termination signal (Spec, FairSpec)                     *)

\* C32: a Stop on a Serving instance never blocks forever on sending the
\* termination signal: whoever is about to send it, the caller of Stop or the
\* restart of a watcher, eventually gets past the send.
C32_StopNeverBlocks ==
    \A t \in Threads : (pc[t] = "stop_term" /\ Serving) ~> (pc[t] # "stop_term")

\* a Stop that has sent the termination signal and has not returned yet
StopSending == \E t \in Threads : pc[t] \in {"stop_server", "stop_nil", "stop_cleanup"}

\* C33: a session is not ended by a termination signal left over from a Stop
\* that came before the Start of its endpoint: a session never opens onto a
\* signal that is waiting in dpi.term with no Stop under way, since its first
\* select can take that signal and return.
C33_NoStaleTermination ==
    [][\A s \in Sessions :
          (ses[s].pc = "none" /\ ses'[s].pc = "select") => (term = 0 \/ StopSending)]_vars

\* C34: the health watcher stays responsive to shutdown: once the shutdown
\* signal is raised, a watcher in its event loop eventually leaves it, also
\* when it is sending a health signal that no session is open to receive
C34_WatcherExitsOnShutdown ==
    \A w \in Watchers : (stopClosed /\ WatcherRunning(w)) ~> ~WatcherRunning(w)

\* C35: an explicit Stop is final until the next explicit Start: with no socket
\* removal other than the one Stop itself causes, once Stop has returned to the
\* caller the instance has no endpoint and no step registers it again
C35_StopIsFinal ==
    [][StopReturned' => (server' = 0 /\ regs' = regs)]_vars

\* C36: an internal Restart keeps the instance connected to the process-wide
\* shutdown signal: once the signal is raised, every health watcher in its event
\* loop and every open session eventually ends, restarted or not
C36_ShutdownReachesRestarted ==
    /\ \A w \in Watchers : (stopClosed /\ pc[w] = "hc_loop") ~> (pc[w] # "hc_loop")
    /\ \A s \in Sessions : (stopClosed /\ ses[s].pc = "select") ~> (ses[s].pc # "select")

\* the health watchers that are inside their event loop
RunningWatchers == {w \in Watchers : WatcherRunning(w)}

\* C37: at any time at most one health-watcher event loop is running for the
\* instance, for every sequence of Start, Stop followed by Start, and restart
C37_OneWatcherLoop == Cardinality(RunningWatchers) <= 1

====
